---- MODULE Spec2Model ----
(***************************************************************************)
(* The ndld OAuth relay (ndld/src/auth.rs, ndld/src/routes.rs): the session *)
(* store, the AuthSession state machine and the three handlers start_auth,  *)
(* auth_callback and poll_auth, together with the cleanup_expired sweep.    *)
(* Handlers are async: every .await is a point where other requests run,    *)
(* so a handler is one action per stretch of code between suspensions.      *)
(***************************************************************************)
EXTENDS Integers, Sequences, FiniteSets, TLC

\* ---- bounds of the model ------------------------------------------------
MaxSessions == 2      \* sessions ever created
MaxTasks == 2         \* requests in flight at the same time
MaxTicks == 1         \* clock advances
MaxRequests == 13     \* requests to the rate-limited routes
MaxOtherRequests == 1 \* of them, requests of the second client
MaxClock == 6         \* seconds the rate-limited router is watched for
MaxConnections == 2   \* connections open at the relay when it shuts down
MaxWait == 40         \* seconds the shutdown is watched for
MaxTime == 450        \* seconds the cleanup task is watched for

\* ---- program constants --------------------------------------------------
SESSION_TTL == 300
CLEANUP_INTERVAL == 60  \* seconds between two passes of the cleanup task
POLL_ATTEMPTS == 150  \* polls of one hosted login
POLL_INTERVAL == 2    \* seconds slept before each poll
GRACE_PERIOD == 30    \* seconds handle.graceful_shutdown waits

\* Option<T>: None is the empty tuple, Some(x) the one-element tuple.
None == << >>
Some(x) == << x >>
unwrap_or(opt, default) == IF opt = None THEN default ELSE opt[1]

\* Strings are sequences of chunks; the four characters maud escapes are
\* chunks of their own so that escaping is computed, not assumed.
MissingState == << "Missing state parameter" >>
SessionNotFound == << "Session not found or expired" >>
MissingCode == << "Missing authorization code" >>

\* AuthState, and at the same time its serde form (tag = "status",
\* rename_all = "snake_case").
Pending == [status |-> "pending"]
Completed(token) == [status |-> "completed", access_token |-> token]
Failed(e) == [status |-> "failed", error |-> e]

VARIABLES
    sessions,      \* SessionStore.sessions: the ids present in the DashMap
    arena,         \* every AuthSession ever built, by id: [state, created_at]
    now,           \* the monotonic clock (Instant::now), in seconds
    task,          \* in-flight requests: handler, position, locals, response
    swept,         \* history: ids older than the TTL at some cleanup pass
    terminal_polls,\* history: per id, polls answered completed or failed
    written,       \* history: per id, the last write of a callback: its state parameter, the value
    interval,      \* the cleanup task's tokio Interval: the instant of its next tick
    promised       \* history: the first token stored for the polling client's session

\* The rate-limited router (routes.rs:640-681).
VARIABLES
    start_limiter, \* the /auth/start limiter's state: per key, None or Some(tat)
    poll_limiter,  \* the /auth/poll limiter's state, likewise
    start_seen,    \* history: per key, the /auth/start requests so far
    poll_seen,     \* history: per key, the /auth/poll requests so far
    throttled      \* history: sessions that had a result when the limiter rejected a poll of them

\* One key extraction (routes.rs:23-34).
VARIABLES
    req,           \* the request: its headers and its peer address
    key            \* None, or Some(result of extract)

\* The local login flow of the client (ndl/src/oauth.rs).
VARIABLES
    login,         \* login(): its position and its result
    log,           \* history: the steps login() has taken, in order
    tx,            \* Arc<Mutex<Option<Sender>>>: who holds the lock, and the cell
    rx,            \* the oneshot channel: the value sent, and what the receiver got
    server,        \* the listener: "unbound", "listening" or "terminated"
    handler        \* the /callback requests in flight at the listener

\* The polling client of the relay (ndl/src/oauth.rs, hosted_login).
VARIABLES
    client         \* hosted_login(): its position, its polls and its result

\* The relay's serve call and its shutdown (ndld/src/main.rs).
VARIABLES
    serving        \* the mode, the signal, the connections and the clock

relay_vars ==
    << sessions, arena, now, task, swept, terminal_polls, written, interval, promised >>
limiter_vars == << start_limiter, poll_limiter, start_seen, poll_seen, throttled >>
extract_vars == << req, key >>
local_vars == << login, log, tx, rx, server, handler >>
client_vars == << client >>
serve_vars == << serving >>
outside_client == << relay_vars, limiter_vars, extract_vars, local_vars, serve_vars >>
outside_serve == << relay_vars, limiter_vars, extract_vars, local_vars, client_vars >>
outside_relay ==
    << written, interval, promised, limiter_vars, extract_vars, local_vars, client_vars,
       serve_vars >>

vars == << relay_vars, limiter_vars, extract_vars, local_vars, client_vars, serve_vars >>

SessionIds == 1 .. MaxSessions
Tasks == 1 .. MaxTasks

\* ---- inputs ---------------------------------------------------------------
\* Path and query strings that may name a session: every id that can be
\* created, and 0 for a string that is never a session id.
IdStrings == 0 .. MaxSessions
Codes == { "abc" }
ErrorValues == { << "access_denied" >> }
Descriptions == { << "User ", "<", "denied", ">" >> }
Tokens == { "tokA", "tokB" }

Opt(S) == { None } \cup { Some(x) : x \in S }

\* CallbackParams (routes.rs:93-99)
CallbackParams ==
    [ code : Opt(Codes), state : Opt(IdStrings),
      error : Opt(ErrorValues), error_description : Opt(Descriptions) ]

\* The smaller inputs of the specification with the clock and the sweep.
SweepCallbackParams ==
    [ code : { Some("abc") }, state : Opt(IdStrings),
      error : { None }, error_description : { None } ]

SweepReplies ==
    { [kind |-> "send_error", detail |-> "connection refused"],
      [kind |-> "response", status |-> 200, body |-> << "json", "tokA" >>] }

\* What the POST to TOKEN_URL can come back with.
ProviderReplies ==
    { [kind |-> "send_error", detail |-> "connection refused"],
      [kind |-> "response", status |-> 400, body |-> << "{", "\"", "error", "\"", "}" >>],
      [kind |-> "response", status |-> 200, body |-> << "not json" >>] }
    \cup { [kind |-> "response", status |-> 200, body |-> << "json", t >>] : t \in Tokens }

\* Header values: whether the bytes are visible ASCII, and the text as
\* chunks (separators, spaces, quotes and brackets are chunks of their own).
HeaderValue(text) == [ascii |-> TRUE, text |-> text]

XForwardedForValues ==
    { None,
      Some(HeaderValue(<< "203.0.113.7" >>)),
      Some(HeaderValue(<< "unknown", ",", " ", "198.51.100.2", ",", " ", "203.0.113.7" >>)),
      Some(HeaderValue(<< "unknown", ",", "203.0.113.7", " ", "junk" >>)),
      Some(HeaderValue(<< >>)),
      Some([ascii |-> FALSE, text |-> << "203.0.113.7" >>]) }

XRealIpValues ==
    { None,
      Some(HeaderValue(<< "192.0.2.9" >>)),
      Some(HeaderValue(<< "not-an-ip" >>)) }

ForwardedValues ==
    { None,
      Some(HeaderValue(<< "for=", "192.0.2.60" >>)),
      Some(HeaderValue(<< "proto=https", ";", " ", "For=", "\"", "[", "2001:db8::1", "]", "\"" >>)),
      Some(HeaderValue(<< "for=", "unknown" >>)),
      Some(HeaderValue(<< "for=", "192.0.2.60", ",", " ", "for=", "203.0.113.7" >>)) }

\* ConnectInfo<SocketAddr>: the peer's address, when the server records it.
ConnectInfoValues == { None, Some(<< 10, 0, 0, 5 >>) }

Requests ==
    [ headers : [ x_forwarded_for : XForwardedForValues, x_real_ip : XRealIpValues,
                  forwarded : ForwardedValues ],
      connect_info : ConnectInfoValues ]

\* A request with no forwarding header and no recorded peer.
BareRequest ==
    [ headers |-> [ x_forwarded_for |-> None, x_real_ip |-> None, forwarded |-> None ],
      connect_info |-> None ]

\* ---- auth.rs ----------------------------------------------------------------
\* A session that is built in a terminal state.
AuthSession_new_failed(at) == [state |-> Failed(MissingCode), created_at |-> at]

\* AuthSession::new: Pending, stamped with the current instant.
AuthSession_new(at) == [state |-> Pending, created_at |-> at]

\* Uuid::new_v4: an id no session has had before.
new_v4 == Len(arena) + 1

is_expired_late(session, at) == at - session.created_at > SESSION_TTL + 1

is_expired_at_ttl(session, at) == at - session.created_at >= SESSION_TTL

\* AuthSession::is_expired at instant `at`.
is_expired(session, at) == at - session.created_at > SESSION_TTL

get_session_any(store, id) == Some(id)

get_session_first(store, id) ==
    IF store = { } THEN None ELSE Some(CHOOSE first \in store : \A other \in store : first <= other)

get_session_unexpired(store, id) ==
    IF id \in store /\ id \in 1 .. Len(arena) /\ ~ is_expired(arena[id], now)
    THEN Some(id) ELSE None

\* SessionStore::get_session
get_session(store, id) == IF id \in store THEN Some(id) ELSE None

remove_session_noop(store, id) == store

\* A removal that empties the map.
remove_session_all(store, id) == { }

\* A removal that empties the map when the key is not in it.
remove_session_absent_clears(store, id) == IF id \in store THEN store \ { id } ELSE { }

\* SessionStore::remove_session
remove_session(store, id) == store \ { id }

create_session_alone(store, id) == { id }

\* SessionStore::create_session, as the store after the insert
create_session(store, id) == store \cup { id }

\* The retain of SessionStore::cleanup_expired
retain_unexpired(store, at) == { id \in store : ~ is_expired(arena[id], at) }

status_text(status) == IF status = 400 THEN "400 Bad Request" ELSE "200 OK"

exchange_code_any_status(reply) ==
    IF reply.kind = "send_error"
    THEN [ok |-> FALSE, err |-> << "Request failed: ", reply.detail >>]
    ELSE IF reply.body[1] # "json"
    THEN [ok |-> FALSE, err |-> << "Parse error: ", "expected value" >>]
    ELSE [ok |-> TRUE, access_token |-> reply.body[2]]

\* OAuthConfig::exchange_code on the provider's reply: Ok(TokenResponse) or
\* Err(String).
exchange_code(reply) ==
    IF reply.kind = "send_error"
    THEN [ok |-> FALSE, err |-> << "Request failed: ", reply.detail >>]
    ELSE IF ~ (reply.status >= 200 /\ reply.status < 300)
    THEN [ok |-> FALSE, err |-> << "HTTP ", status_text(reply.status), ": " >> \o reply.body]
    ELSE IF reply.body[1] # "json"
    THEN [ok |-> FALSE, err |-> << "Parse error: ", "expected value" >>]
    ELSE [ok |-> TRUE, access_token |-> reply.body[2]]

\* The scope list of both authorization URLs.
OAUTH_SCOPES == "threads_basic,threads_read_replies,threads_manage_replies,threads_content_publish"

\* The OAuthConfig of the running relay (main.rs reads it from the
\* environment): the client id and the public URL, as chunks.
oauth == [client_id |-> "client-id", public_url |-> << "https", ":", "/", "/", "relay.example" >>]

\* urlencoding::encode on the chunks that occur in a redirect URI.
urlencode_chunk(c) ==
    IF c = ":" THEN "%3A" ELSE IF c = "/" THEN "%2F" ELSE c

urlencode(s) == [i \in 1 .. Len(s) |-> urlencode_chunk(s[i])]

\* OAuthConfig::redirect_uri
redirect_uri == oauth.public_url \o << "/", "auth", "/", "callback" >>

\* OAuthConfig::authorization_url: the query ends with state=<session id>.
authorization_url(state) ==
    << "https://threads.net/oauth/authorize", "?", "client_id=", oauth.client_id,
       "&", "redirect_uri=" >> \o urlencode(redirect_uri)
    \o << "&", "scope=", OAUTH_SCOPES,
          "&", "response_type=", "code", "&", "state=", state >>

\* ---- routes.rs: pages and bodies ----------------------------------------------
\* maud's escaping of text content: & < > " become entities.
escape_chunk(c) ==
    IF c = "&" THEN << "&", "amp;" >>
    ELSE IF c = "<" THEN << "&", "lt;" >>
    ELSE IF c = ">" THEN << "&", "gt;" >>
    ELSE IF c = "\"" THEN << "&", "quot;" >>
    ELSE << c >>

RECURSIVE escape(_)
escape(s) == IF s = << >> THEN << >> ELSE escape_chunk(Head(s)) \o escape(Tail(s))

error_html_bad_request(error) ==
    [status |-> 400, content_type |-> "text/html",
     heading |-> "Authorization Failed", text |-> escape(error)]

\* Markup / Html into_response: 200 text/html. The body is the page's
\* heading and the text of its p.error element.
error_html(error) ==
    [status |-> 200, content_type |-> "text/html",
     heading |-> "Authorization Failed", text |-> escape(error)]

success_html ==
    [status |-> 200, content_type |-> "text/html",
     heading |-> "Authorization Complete", text |-> << >>]

poll_ok_pending(auth_state) ==
    [status |-> 200, content_type |-> "application/json", json |-> Pending]

\* Ok(Json(PollResponse { state })): the flattened AuthState
poll_ok(auth_state) ==
    [status |-> 200, content_type |-> "application/json", json |-> auth_state]

poll_not_found ==
    [status |-> 404, content_type |-> "application/json",
     json |-> [error |-> SessionNotFound]]

\* Json(StartAuthResponse { session_id, auth_url })
start_ok(id) ==
    [status |-> 200, content_type |-> "application/json",
     json |-> [session_id |-> id, auth_url |-> authorization_url(id)]]

is_terminal_any(auth_state) == TRUE

\* matches!(auth_state, Completed { .. } | Failed { .. })
is_terminal(auth_state) == auth_state.status \in { "completed", "failed" }

\* ---- routes.rs: the rate-limit key --------------------------------------------
\* IpAddr values, and the texts that parse to them (str::parse::<IpAddr>).
\* Any other text does not parse.
Loopback == << 127, 0, 0, 1 >>

\* A text is a sequence of chunks; it parses only if it is exactly one
\* address text, with nothing before or after it.
parse_ip(s) ==
    IF Len(s) # 1 THEN None
    ELSE IF s[1] = "203.0.113.7" THEN Some(<< 203, 0, 113, 7 >>)
    ELSE IF s[1] = "198.51.100.2" THEN Some(<< 198, 51, 100, 2 >>)
    ELSE IF s[1] = "192.0.2.9" THEN Some(<< 192, 0, 2, 9 >>)
    ELSE IF s[1] = "192.0.2.60" THEN Some(<< 192, 0, 2, 60 >>)
    ELSE IF s[1] = "2001:db8::1" THEN Some(<< 8193, 3512, 0, 0, 0, 0, 0, 1 >>)
    ELSE None

\* HeaderValue::to_str: Err for a value with bytes outside visible ASCII.
to_str(hv) == IF hv.ascii THEN Some(hv.text) ELSE None

\* str::split on a one-chunk separator: the pieces, in order.
RECURSIVE split(_, _)
split(s, sep) ==
    IF \A i \in 1 .. Len(s) : s[i] # sep THEN << s >>
    ELSE LET i == CHOOSE i \in 1 .. Len(s) : s[i] = sep /\ \A j \in 1 .. i - 1 : s[j] # sep
         IN << SubSeq(s, 1, i - 1) >> \o split(SubSeq(s, i + 1, Len(s)), sep)

\* str::trim_matches: drop the chunks of `set` from both ends.
RECURSIVE trim_matches(_, _)
trim_matches(s, set) ==
    IF s = << >> THEN s
    ELSE IF Head(s) \in set THEN trim_matches(Tail(s), set)
    ELSE IF s[Len(s)] \in set THEN trim_matches(SubSeq(s, 1, Len(s) - 1), set)
    ELSE s

\* str::trim
trim(s) == trim_matches(s, { " " })

\* Iterator::find_map for an f that is None or Some: the first Some.
RECURSIVE find_map(_)
find_map(results) ==
    IF results = << >> THEN None
    ELSE IF Head(results) # None THEN Head(results)
    ELSE find_map(Tail(results))

\* str::to_lowercase on the chunk that names a Forwarded parameter.
to_lowercase(c) == IF c = "For=" \/ c = "FOR=" THEN "for=" ELSE c

and_then_str(header) == IF header = None THEN None ELSE to_str(header[1])

\* maybe_x_forwarded_for (routes.rs:41-46)
maybe_x_forwarded_for(headers) ==
    LET s == and_then_str(headers.x_forwarded_for) IN
    IF s = None THEN None
    ELSE LET parts == split(s[1], ",") IN
         find_map([i \in 1 .. Len(parts) |-> parse_ip(trim(parts[i]))])

\* maybe_x_real_ip (routes.rs:48-53): the value is parsed as it is.
maybe_x_real_ip(headers) ==
    LET s == and_then_str(headers.x_real_ip) IN
    IF s = None THEN None ELSE parse_ip(s[1])

\* One part of a Forwarded header (routes.rs:62-70).
forwarded_part(raw) ==
    LET part == trim(raw) IN
    IF part # << >> /\ to_lowercase(part[1]) = "for="
    THEN parse_ip(trim_matches(Tail(part), { "\"", "[", "]" }))
    ELSE None

\* maybe_forwarded (routes.rs:55-72)
maybe_forwarded(headers) ==
    LET s == and_then_str(headers.forwarded) IN
    IF s = None THEN None
    ELSE LET parts == split(s[1], ";") IN
         find_map([i \in 1 .. Len(parts) |-> forwarded_part(parts[i])])

or_else(opt, other) == IF opt # None THEN opt ELSE other

extract_real_ip_first(request) ==
    LET ip == unwrap_or(
                or_else(maybe_x_real_ip(request.headers),
                  or_else(maybe_x_forwarded_for(request.headers),
                    or_else(maybe_forwarded(request.headers), request.connect_info))),
                Loopback)
    IN [ok |-> TRUE, key |-> ip]

\* FallbackIpKeyExtractor::extract (routes.rs:23-34): always Ok.
extract(request) ==
    LET ip == unwrap_or(
                or_else(maybe_x_forwarded_for(request.headers),
                  or_else(maybe_x_real_ip(request.headers),
                    or_else(maybe_forwarded(request.headers), request.connect_info))),
                Loopback)
    IN [ok |-> TRUE, key |-> ip]

\* ---- requests in flight -----------------------------------------------------
\* kind: the handler; pc: where it is suspended; session_id: the id the
\* request names; session: the Arc<AuthSession> it holds; val: the AuthState it read or is about to write; reply: what the
\* token endpoint answered; resp: the HTTP response; exchanges: token
\* requests it has sent; at: history, the instant of its lookup in the store.
Idle ==
    [kind |-> "idle", pc |-> "idle", session_id |-> None, session |-> None, val |-> None,
     reply |-> None, resp |-> None, exchanges |-> 0, at |-> 0]

\* The locks of the relay: the map of the store (auth.rs:42) and the
\* RwLock of one session's state (auth.rs:22).
StoreLock == << "store", 0 >>
StateLock(id) == << "state", id >>

guards_across_exchange(tk) ==
    IF tk.kind = "callback" /\ tk.pc = "exchange" THEN { StateLock(tk.session[1]) } ELSE { }

\* The lock guards a suspended handler holds. Every guard in the handlers
\* is a temporary of one statement (routes.rs:150, 162, 173, 180, 201;
\* auth.rs:54-55, 60, 64, 69), dropped before the next .await or return.
guards(tk) == { }

\* No request other than t holds the lock.
unlocked(t, lock) == \A u \in Tasks \ { t } : lock \notin guards(task[u])

\* A new request takes the first free slot (slots are interchangeable).
free_slot(t) ==
    /\ task[t].kind = "idle"
    /\ \A u \in Tasks : u < t => task[u].kind # "idle"

TypeOK ==
    /\ sessions \subseteq 1 .. Len(arena)
    /\ now \in Nat
    /\ DOMAIN task = Tasks
    /\ swept \subseteq SessionIds
    /\ terminal_polls \in [SessionIds -> 0 .. MaxTasks]
    /\ DOMAIN written = SessionIds

\* ---- routes.rs: the two limiters -------------------------------------------------
\* GovernorConfigBuilder: per_second(n) sets the interval after which one
\* cell is replenished to n seconds; burst_size(b) is the bucket's size.
start_quota == [replenish_1_per |-> 6, max_burst |-> 10]

\* A poll limiter that replenishes as slowly as the start limiter.
poll_quota_slow == [replenish_1_per |-> 6, max_burst |-> 10]

poll_quota == [replenish_1_per |-> 1, max_burst |-> 10]

saturating_sub(a, b) == IF a > b THEN a - b ELSE 0
max(a, b) == IF a > b THEN a ELSE b

gcra_no_burst(quota, tat, t0) ==
    LET t == quota.replenish_1_per
        cur == IF tat = None THEN t0 + t ELSE tat[1]
        earliest_time == saturating_sub(cur, t)
    IN IF t0 < earliest_time
       THEN [ok |-> FALSE, tat |-> tat, wait |-> earliest_time - t0]
       ELSE [ok |-> TRUE, tat |-> Some(max(cur, t0) + t), wait |-> 0]

\* The limiter's decision for one key at instant t0 (seconds since the
\* limiter was built), from the key's stored state: the generic cell rate
\* algorithm with t = the replenish interval and tau = t * burst. A key
\* seen for the first time starts at t0 + t; a rejection stores nothing.
gcra(quota, tat, t0) ==
    LET t == quota.replenish_1_per
        tau == t * quota.max_burst
        cur == IF tat = None THEN t0 + t ELSE tat[1]
        earliest_time == saturating_sub(cur, tau)
    IN IF t0 < earliest_time
       THEN [ok |-> FALSE, tat |-> tat, wait |-> earliest_time - t0]
       ELSE [ok |-> TRUE, tat |-> Some(max(cur, t0) + t), wait |-> 0]

\* The layer's answer to a request it rejects.
too_many_requests(wait) ==
    [status |-> 429, content_type |-> "text/plain", retry_after |-> wait]

\* Json(HealthResponse { status: "ok", .. })
health_ok ==
    [status |-> 200, content_type |-> "application/json", json |-> [status |-> "ok"]]

\* The clients of the rate-limited router: one behind a proxy that sets
\* X-Forwarded-For, one known by its peer address.
RouterRequests ==
    { [BareRequest EXCEPT !.headers.x_forwarded_for = Some(HeaderValue(<< "203.0.113.7" >>))],
      [BareRequest EXCEPT !.connect_info = Some(<< 10, 0, 0, 5 >>)] }

RouterKeys == { extract(r).key : r \in RouterRequests }

\* Both limiters new: no key seen.
limiter_init ==
    /\ start_limiter = [k \in RouterKeys |-> None]
    /\ poll_limiter = [k \in RouterKeys |-> None]
    /\ start_seen = [k \in RouterKeys |-> [n |-> 0, first |-> None, last |-> None]]
    /\ poll_seen = [k \in RouterKeys |-> 0]
    /\ throttled = { }

\* ---- ndl/src/oauth.rs: the local login flow ------------------------------------------
\* Result<T, OAuthError>
Ok(x) == [ok |-> TRUE, value |-> x]
Err(kind, detail) == [ok |-> FALSE, error |-> kind, detail |-> detail]

\* CallbackParams of the local listener (oauth.rs:13-18)
LocalCallbackParams ==
    [ code : Opt({ "xyz" }), error : Opt({ "access_denied" }),
      error_description : Opt({ "User denied access" }) ]

\* An outcome that looks at the error before it looks at the code.
callback_result_error_first(params) ==
    IF params.error # None \/ params.error_description # None \/ params.code = None
    THEN Err("AuthorizationDenied",
             unwrap_or(params.error_description, unwrap_or(params.error, "Unknown error")))
    ELSE Ok(params.code[1])

\* The outcome a /callback request stands for (oauth.rs:103-111).
callback_result(params) ==
    IF params.code # None THEN Ok(params.code[1])
    ELSE Err("AuthorizationDenied",
             unwrap_or(params.error_description, unwrap_or(params.error, "Unknown error")))

\* Html(CALLBACK_HTML)
CALLBACK_HTML == [status |-> 200, content_type |-> "text/html", body |-> "CALLBACK_HTML"]

\* OAuthConfig::exchange_code of the client (oauth.rs:51-82).
local_exchange_code(reply) ==
    IF reply.kind = "send_error"
    THEN Err("TokenExchange", << reply.detail >>)
    ELSE IF ~ (reply.status >= 200 /\ reply.status < 300)
    THEN Err("TokenExchange", << "HTTP ", status_text(reply.status), ": " >> \o reply.body)
    ELSE IF reply.body[1] # "json"
    THEN Err("TokenExchange", << "expected value" >>)
    ELSE Ok(reply.body[2])

\* OAuthConfig::new of the client (oauth.rs:34-40): the redirect URI is the
\* local listener's.
local_oauth ==
    [client_id |-> "client-id",
     redirect_uri |-> << "https", ":", "/", "/", "localhost", ":", "1337", "/", "callback" >>]

\* OAuthConfig::authorization_url of the client (oauth.rs:42-48): the query
\* ends with response_type=code.
local_authorization_url ==
    << "https://threads.net/oauth/authorize", "?", "client_id=", local_oauth.client_id,
       "&", "redirect_uri=" >> \o urlencode(local_oauth.redirect_uri)
    \o << "&", "scope=", OAUTH_SCOPES,
          "&", "response_type=", "code" >>

\* A /callback request not in flight.
NoHandler ==
    [pc |-> "idle", path |-> None, params |-> None, result |-> None, took |-> None,
     resp |-> None]

\* login() not called; no channel, no listener.
local_init ==
    /\ login = [pc |-> "idle", auth_url |-> None, waited |-> None, result |-> None]
    /\ log = << >>
    /\ tx = [holder |-> None, cell |-> None]
    /\ rx = [sent |-> None, sends |-> 0, open |-> FALSE]
    /\ server = "unbound"
    /\ handler = [h \in Tasks |-> NoHandler]

\* login() is called (oauth.rs:172-179): the URL is built and printed.
login_begin ==
    /\ login.pc = "idle"
    /\ login' = [login EXCEPT !.pc = "open_browser",
                               !.auth_url = Some(local_authorization_url)]
    /\ UNCHANGED << log, tx, rx, server, handler >>
    /\ UNCHANGED << relay_vars, limiter_vars, extract_vars, client_vars, serve_vars >>

\* open::that(&auth_url) (oauth.rs:182); on success login goes on into
\* wait_for_callback, which first builds the channel and the cell that
\* holds its sender (oauth.rs:93-94).
login_open_browser(opened) ==
    /\ login.pc = "open_browser"
    /\ log' = Append(log, "open_url")
    /\ IF opened
       THEN /\ login' = [login EXCEPT !.pc = "generate_cert"]
            /\ tx' = [holder |-> None, cell |-> Some("sender")]
            /\ rx' = [sent |-> None, sends |-> 0, open |-> TRUE]
       ELSE /\ login' = [login EXCEPT !.pc = "done",
                                      !.result = Some(Err("BrowserOpen", "open failed"))]
            /\ UNCHANGED << tx, rx >>
    /\ UNCHANGED << server, handler >>
    /\ UNCHANGED << relay_vars, limiter_vars, extract_vars, client_vars, serve_vars >>

\* What wait_for_callback returns with when it gives up before the select:
\* the sender and the receiver are dropped with it.
wait_fails(error) ==
    /\ login' = [login EXCEPT !.pc = "done", !.waited = Some(error), !.result = Some(error)]
    /\ tx' = [tx EXCEPT !.cell = None]
    /\ rx' = [rx EXCEPT !.open = FALSE]

\* generate_localhost_cert (oauth.rs:125)
login_generate_cert(generated) ==
    /\ login.pc = "generate_cert"
    /\ log' = Append(log, "generate_cert")
    /\ IF generated
       THEN login' = [login EXCEPT !.pc = "tls_config"] /\ UNCHANGED << tx, rx >>
       ELSE wait_fails(Err("CertGeneration", "rcgen"))
    /\ UNCHANGED << server, handler >>
    /\ UNCHANGED << relay_vars, limiter_vars, extract_vars, client_vars, serve_vars >>

\* A wait that binds the listener before it loads the TLS configuration.
login_tls_config_bound(loaded) ==
    /\ login.pc = "tls_config"
    /\ log' = Append(log, "bind")
    /\ server' = "listening"
    /\ IF loaded
       THEN login' = [login EXCEPT !.pc = "select"] /\ UNCHANGED << tx, rx >>
       ELSE wait_fails(Err("TlsConfig", "pem"))
    /\ UNCHANGED handler
    /\ UNCHANGED << relay_vars, limiter_vars, extract_vars, client_vars, serve_vars >>

\* RustlsConfig::from_pem(..).await (oauth.rs:127-132); the server future
\* is then built, not yet polled (oauth.rs:137).
login_tls_config(loaded) ==
    /\ login.pc = "tls_config"
    /\ IF loaded
       THEN login' = [login EXCEPT !.pc = "bind"] /\ UNCHANGED << tx, rx >>
       ELSE wait_fails(Err("TlsConfig", "pem"))
    /\ UNCHANGED << log, server, handler >>
    /\ UNCHANGED << relay_vars, limiter_vars, extract_vars, client_vars, serve_vars >>

\* The select's first poll of the server future (oauth.rs:139-143): the
\* listener binds 127.0.0.1:1337, or the future ends with the bind error.
login_bind(bound) ==
    /\ login.pc = "bind"
    /\ log' = Append(log, "bind")
    /\ server' = IF bound THEN "listening" ELSE "terminated"
    /\ login' = [login EXCEPT !.pc = "select"]
    /\ UNCHANGED << tx, rx, handler >>
    /\ UNCHANGED << relay_vars, limiter_vars, extract_vars, client_vars, serve_vars >>

\* The serve future ends while the caller waits.
server_terminates ==
    /\ server = "listening"
    /\ login.pc = "select"
    /\ server' = "terminated"
    /\ UNCHANGED << login, log, tx, rx, handler >>
    /\ UNCHANGED << relay_vars, limiter_vars, extract_vars, client_vars, serve_vars >>

select_ready_closed(chan, srv) ==
    (IF chan.sent # None THEN { chan.sent[1] } ELSE { Err("ChannelClosed", "") })
    \cup (IF srv = "terminated" THEN { Err("ServerShutdown", "") } ELSE { })

\* tokio::select! over rx and server (oauth.rs:139-146): the branches that
\* are ready. The sender lives in the cell until it is taken and used, so
\* rx is ready only with a value.
select_ready(chan, srv) ==
    (IF chan.sent # None THEN { chan.sent[1] } ELSE { })
    \cup (IF srv = "terminated" THEN { Err("ServerShutdown", "") } ELSE { })

\* The select resolves with one ready branch; both futures are dropped.
\* `?` returns an error from login at once (oauth.rs:186).
login_select ==
    /\ login.pc = "select"
    /\ \E outcome \in select_ready(rx, server) :
          login' = [login EXCEPT !.pc = IF outcome.ok THEN "exchange" ELSE "done",
                                 !.waited = Some(outcome),
                                 !.result = IF outcome.ok THEN None ELSE Some(outcome)]
    /\ log' = Append(log, "resolved")
    /\ rx' = [rx EXCEPT !.open = FALSE]
    /\ server' = IF server = "listening" THEN "dropped" ELSE server
    /\ UNCHANGED << tx, handler >>
    /\ UNCHANGED << relay_vars, limiter_vars, extract_vars, client_vars, serve_vars >>

\* config.exchange_code(&code).await and the return (oauth.rs:190-193).
login_exchange(reply) ==
    /\ login.pc = "exchange"
    /\ log' = log \o (IF local_exchange_code(reply).ok THEN << "exchange", "return_token" >>
                       ELSE << "exchange" >>)
    /\ login' = [login EXCEPT !.pc = "done", !.result = Some(local_exchange_code(reply))]
    /\ UNCHANGED << tx, rx, server, handler >>
    /\ UNCHANGED << relay_vars, limiter_vars, extract_vars, client_vars, serve_vars >>

\* A new /callback request takes the first free slot.
free_handler(h) ==
    /\ handler[h].pc = "idle"
    /\ \A g \in Tasks : g < h => handler[g].pc # "idle"

\* GET /callback at the listener (oauth.rs:100-111): the outcome the
\* request stands for.
local_callback_begin(h, params) ==
    /\ server = "listening"
    /\ free_handler(h)
    /\ handler' = [handler EXCEPT ![h] = [NoHandler EXCEPT !.pc = "lock",
                                                      !.path = Some("/callback"),
                                                      !.params = Some(params),
                                                      !.result = Some(callback_result(params))]]
    /\ UNCHANGED << login, log, tx, rx, server >>
    /\ UNCHANGED << relay_vars, limiter_vars, extract_vars, client_vars, serve_vars >>

take_keep(cell) == cell

\* Option::take: what is left in the cell.
take(cell) == None

\* tx.lock().unwrap().take() (oauth.rs:113): the lock is acquired when no
\* other request holds it, and the cell is emptied under it.
local_callback_take(h) ==
    /\ handler[h].pc = "lock"
    /\ tx.holder = None
    /\ tx' = [holder |-> Some(h), cell |-> take(tx.cell)]
    /\ handler' = [handler EXCEPT ![h].pc = "locked", ![h].took = tx.cell]
    /\ UNCHANGED << login, log, rx, server >>
    /\ UNCHANGED << relay_vars, limiter_vars, extract_vars, client_vars, serve_vars >>

\* Sender::send: the value goes to a receiver that is still there; without
\* one the value comes back as Err, which the handler drops.
send(chan, value) ==
    IF chan.open THEN [chan EXCEPT !.sent = Some(value), !.sends = @ + 1]
    ELSE [chan EXCEPT !.sends = @ + 1]

\* let _ = tx.send(result) for the request that got the sender, and the
\* end of the if-let, which releases the lock (oauth.rs:113-115).
local_callback_send(h) ==
    /\ handler[h].pc = "locked"
    /\ rx' = IF handler[h].took # None THEN send(rx, handler[h].result[1]) ELSE rx
    /\ tx' = [tx EXCEPT !.holder = None]
    /\ handler' = [handler EXCEPT ![h].pc = "respond"]
    /\ UNCHANGED << login, log, server >>
    /\ UNCHANGED << relay_vars, limiter_vars, extract_vars, client_vars, serve_vars >>

\* Html(CALLBACK_HTML) (oauth.rs:117)
local_callback_respond(h) ==
    /\ handler[h].pc = "respond"
    /\ handler' = [handler EXCEPT ![h].pc = "done", ![h].resp = Some(CALLBACK_HTML)]
    /\ UNCHANGED << login, log, tx, rx, server >>
    /\ UNCHANGED << relay_vars, limiter_vars, extract_vars, client_vars, serve_vars >>

\* The response has gone out.
local_callback_return(h) ==
    /\ handler[h].pc = "done"
    /\ handler' = [handler EXCEPT ![h] = NoHandler]
    /\ UNCHANGED << login, log, tx, rx, server >>
    /\ UNCHANGED << relay_vars, limiter_vars, extract_vars, client_vars, serve_vars >>

\* The two routes without state (oauth.rs:121-122) and their pages.
StaticRoutes == { "/deauthorize", "/delete" }

static_page(path) ==
    [status |-> 200, content_type |-> "text/html",
     body |-> IF path = "/deauthorize" THEN "Deauthorized" ELSE "Deleted"]

\* GET /deauthorize or GET /delete at the listener: the closure captures
\* nothing and answers with its page.
local_static_begin(h, path) ==
    /\ server = "listening"
    /\ free_handler(h)
    /\ handler' = [handler EXCEPT ![h] = [NoHandler EXCEPT !.pc = "static",
                                                      !.path = Some(path),
                                                      !.resp = Some(static_page(path))]]
    /\ UNCHANGED << login, log, tx, rx, server >>
    /\ UNCHANGED << relay_vars, limiter_vars, extract_vars, client_vars, serve_vars >>

\* Its response has gone out.
local_static_return(h) ==
    /\ handler[h].pc = "static"
    /\ handler' = [handler EXCEPT ![h] = NoHandler]
    /\ UNCHANGED << login, log, tx, rx, server >>
    /\ UNCHANGED << relay_vars, limiter_vars, extract_vars, client_vars, serve_vars >>

\* One step of a /callback request in flight.
local_callback_step(h) ==
    \/ local_callback_take(h)
    \/ local_callback_send(h)
    \/ local_callback_respond(h)
    \/ local_callback_return(h)

\* ---- ndl/src/oauth.rs: the polling client (hosted_login) -----------------------------
\* What the POST to {auth_server}/auth/start can come back with.
StartReplies ==
    { [kind |-> "send_error", detail |-> "connection refused"],
      [kind |-> "response", response |-> start_ok(1)],
      [kind |-> "response", response |-> too_many_requests(6)],
      [kind |-> "response", response |-> [status |-> 200, content_type |-> "text/html",
                                          body |-> "not json"]] }

\* What a GET of {auth_server}/auth/poll/{session_id} can come back with:
\* the relay's answers, a proxy's error and page, and a failure to send.
PollReplies ==
    { [kind |-> "send_error", detail |-> "connection reset"],
      [kind |-> "response", response |-> poll_not_found],
      [kind |-> "response", response |-> too_many_requests(1)],
      [kind |-> "response", response |-> [status |-> 502, content_type |-> "text/html",
                                          body |-> "Bad Gateway"]],
      [kind |-> "response", response |-> [status |-> 200, content_type |-> "text/html",
                                          body |-> "not json"]],
      [kind |-> "response", response |-> health_ok],
      [kind |-> "response", response |-> poll_ok(Pending)],
      [kind |-> "response", response |-> poll_ok(Failed(<< "access_denied" >>))] }
    \cup { [kind |-> "response", response |-> poll_ok(Completed(t))] : t \in Tokens }

\* StatusCode::is_success
is_success(status) == status >= 200 /\ status < 300

\* response.json::<StartAuthResponse>() (oauth.rs:271-274)
start_json(response) ==
    IF "json" \in DOMAIN response /\ DOMAIN response.json = { "session_id", "auth_url" }
    THEN Ok(response.json)
    ELSE Err("HostedAuth", << "Invalid response: ", "expected value" >>)

\* response.json::<PollStatus>() (oauth.rs:305-308, 241-247)
poll_json(response) ==
    IF /\ "json" \in DOMAIN response
       /\ "status" \in DOMAIN response.json
       /\ \/ response.json.status = "pending"
          \/ response.json.status = "completed" /\ "access_token" \in DOMAIN response.json
          \/ response.json.status = "failed" /\ "error" \in DOMAIN response.json
    THEN Ok(response.json)
    ELSE Err("HostedAuth", << "Invalid poll response: ", "expected value" >>)

\* Step 1 of hosted_login (oauth.rs:254-274): the start request and its answer.
after_start(c, reply) ==
    IF reply.kind = "send_error"
    THEN [c EXCEPT !.pc = "done",
             !.result = Some(Err("HostedAuth", << "Failed to start auth: ", reply.detail >>))]
    ELSE IF ~ is_success(reply.response.status)
    THEN [c EXCEPT !.pc = "done",
             !.result = Some(Err("HostedAuth", << "Server error: " >>))]
    ELSE LET start_resp == start_json(reply.response) IN
         IF ~ start_resp.ok
         THEN [c EXCEPT !.pc = "done", !.result = Some(start_resp)]
         ELSE [c EXCEPT !.pc = "open_browser",
                  !.session_id = Some(start_resp.value.session_id),
                  !.auth_url = Some(start_resp.value.auth_url)]

hosted_start(reply) ==
    /\ client.pc = "idle"
    /\ client' = after_start(client, reply)
    /\ UNCHANGED outside_client

\* open::that(&start_resp.auth_url).map_err(..)? (oauth.rs:281)
open_that(opened) ==
    IF opened THEN Ok(TRUE) ELSE Err("BrowserOpen", << "open failed" >>)

hosted_open_browser(opened) ==
    /\ client.pc = "open_browser"
    /\ LET r == open_that(opened) IN
       client' = IF r.ok
                 THEN [client EXCEPT !.pc = "loop", !.opened = Some(opened)]
                 ELSE [client EXCEPT !.pc = "done", !.opened = Some(opened),
                                     !.result = Some(r)]
    /\ UNCHANGED outside_client

\* for _ in 0..150 (oauth.rs:288)
loop_forever(polls) == TRUE

loop_continues(polls) == polls < POLL_ATTEMPTS

\* The head of the loop, and the return after it (oauth.rs:288, 326).
hosted_loop ==
    /\ client.pc = "loop"
    /\ client' = IF loop_continues(client.polls)
                 THEN [client EXCEPT !.pc = "sleep"]
                 ELSE [client EXCEPT !.pc = "done",
                                     !.result = Some(Err("SessionTimeout", << >>))]
    /\ UNCHANGED outside_client

\* tokio::time::sleep(Duration::from_secs(2)).await (oauth.rs:289)
after_sleep(c) == [c EXCEPT !.pc = "poll", !.slept = @ + POLL_INTERVAL]

hosted_sleep ==
    /\ client.pc = "sleep"
    /\ client' = after_sleep(client)
    /\ UNCHANGED outside_client

\* What one poll's answer does to the login (oauth.rs:291-323): go on with
\* the loop, or return.
Continue == [continue |-> TRUE]
Return(result) == [continue |-> FALSE, result |-> result]

poll_outcome_failed_retries(reply) ==
    IF reply.kind = "send_error"
    THEN Return(Err("HostedAuth", << "Poll failed: ", reply.detail >>))
    ELSE IF reply.response.status = 404
    THEN Return(Err("SessionTimeout", << >>))
    ELSE IF ~ is_success(reply.response.status)
    THEN Continue
    ELSE LET poll_resp == poll_json(reply.response) IN
         IF ~ poll_resp.ok THEN Return(poll_resp)
         ELSE IF poll_resp.value.status = "completed"
         THEN Return(Ok([access_token |-> poll_resp.value.access_token, user_id |-> 0]))
         ELSE Continue

poll_outcome(reply) ==
    IF reply.kind = "send_error"
    THEN Return(Err("HostedAuth", << "Poll failed: ", reply.detail >>))
    ELSE IF reply.response.status = 404
    THEN Return(Err("SessionTimeout", << >>))
    ELSE IF ~ is_success(reply.response.status)
    THEN Continue
    ELSE LET poll_resp == poll_json(reply.response) IN
         IF ~ poll_resp.ok THEN Return(poll_resp)
         ELSE IF poll_resp.value.status = "pending"
         THEN Continue
         ELSE IF poll_resp.value.status = "completed"
         THEN Return(Ok([access_token |-> poll_resp.value.access_token, user_id |-> 0]))
         ELSE Return(Err("AuthorizationDenied", poll_resp.value.error))

\* One poll: the request, its answer and what the loop does with it.
after_poll(c, reply) ==
    LET outcome == poll_outcome(reply) IN
    IF outcome.continue
    THEN [c EXCEPT !.pc = "loop", !.polls = @ + 1, !.last = Some(reply)]
    ELSE [c EXCEPT !.pc = "done", !.polls = @ + 1, !.last = Some(reply),
                   !.result = Some(outcome.result)]

hosted_poll(reply) ==
    /\ client.pc = "poll"
    /\ client' = after_poll(client, reply)
    /\ UNCHANGED outside_client

\* Any step of hosted_login.
hosted_step ==
    \/ \E reply \in StartReplies : hosted_start(reply)
    \/ \E opened \in { TRUE, FALSE } : hosted_open_browser(opened)
    \/ hosted_loop
    \/ hosted_sleep
    \/ \E reply \in PollReplies : hosted_poll(reply)

\* ---- ndld/src/main.rs: serving and shutdown --------------------------------------------
\* Priority: ACME > manual TLS > plain HTTP (main.rs:124-210).
ServeModes == { "acme", "tls", "plain" }

Signals == { "SIGINT", "SIGTERM" }

\* How long the serve call waits for open connections once shutdown has
\* begun: spawn_shutdown_handler gives the Handle 30 s (main.rs:52, 164,
\* 183); axum::serve(..).with_graceful_shutdown takes no duration
\* (main.rs:199-200) and waits until the last connection has closed.
graceful_timeout(mode) ==
    IF mode \in { "acme", "tls" } THEN Some(GRACE_PERIOD) ELSE None

\* main reaches one of its three serve calls (main.rs:166-170, 185-188, 199-201).
serve_begin(mode) ==
    /\ serving.pc = "starting"
    /\ serving' = [serving EXCEPT !.mode = Some(mode), !.pc = "serving", !.accepting = TRUE]
    /\ UNCHANGED outside_serve

\* The listener accepts a connection and a request runs on it.
accept_connection ==
    /\ serving.accepting
    /\ serving.in_flight < MaxConnections
    /\ serving' = [serving EXCEPT !.in_flight = @ + 1]
    /\ UNCHANGED outside_serve

\* A request is answered and its connection closes.
connection_done ==
    /\ serving.pc \in { "serving", "draining" }
    /\ serving.in_flight > 0
    /\ serving' = [serving EXCEPT !.in_flight = @ - 1]
    /\ UNCHANGED outside_serve

\* shutdown_signal() resolves (main.rs:20-46) and the shutdown begins
\* (main.rs:52, 200): the listener accepts no more.
signal_received(sig) ==
    /\ serving.pc = "serving"
    /\ serving' = [serving EXCEPT !.signal = Some(sig), !.pc = "draining",
                                   !.accepting = FALSE, !.since_signal = 0]
    /\ UNCHANGED outside_serve

\* The last connection has closed: the serve call returns
\* (main.rs:170-173, 188-191, 201-204).
serve_drained ==
    /\ serving.pc = "draining"
    /\ serving.in_flight = 0
    /\ serving' = [serving EXCEPT !.pc = "returned"]
    /\ UNCHANGED outside_serve

\* Time passes while connections are open after the signal; it does not
\* pass the end of the grace period, where there is one, before the
\* connections are closed.
GraceSteps == { 5, 10 }

grace_tick ==
    /\ serving.pc = "draining"
    /\ serving.in_flight > 0
    /\ \E d \in GraceSteps :
          /\ serving.since_signal + d <= MaxWait
          /\ LET timeout == graceful_timeout(serving.mode[1]) IN
             timeout # None => serving.since_signal + d <= timeout[1]
          /\ serving' = [serving EXCEPT !.since_signal = @ + d]
    /\ UNCHANGED outside_serve

\* The grace period is over: the open connections are closed and the serve
\* call returns.
force_close ==
    /\ serving.pc = "draining"
    /\ serving.in_flight > 0
    /\ LET timeout == graceful_timeout(serving.mode[1]) IN
       timeout # None /\ serving.since_signal >= timeout[1]
    /\ serving' = [serving EXCEPT !.pc = "returned", !.forced = serving.in_flight,
                                   !.in_flight = 0]
    /\ UNCHANGED outside_serve

\* SessionStore::new, and no request in flight.
relay_init ==
    /\ sessions = { }
    /\ written = [id \in SessionIds |-> None]
    /\ interval = 0
    /\ promised = None
    /\ arena = << >>
    /\ now = 0
    /\ task = [t \in Tasks |-> Idle]
    /\ swept = { }
    /\ terminal_polls = [s \in SessionIds |-> 0]

\* No key extraction under way.
extract_init == req = BareRequest /\ key = None

\* hosted_login() not called.
client_init ==
    client = [pc |-> "idle", session_id |-> None, auth_url |-> None, opened |-> None,
              polls |-> 0, slept |-> 0, last |-> None, result |-> None]

\* The relay not yet serving.
serve_init ==
    serving = [mode |-> None, pc |-> "starting", accepting |-> FALSE, in_flight |-> 0,
               signal |-> None, since_signal |-> 0, forced |-> 0]

Init == relay_init /\ limiter_init /\ extract_init /\ local_init /\ client_init /\ serve_init

\* POST /auth/start (routes.rs:115-125): the handler has no suspension, so
\* the session is created and the response built in one step.
start_auth_handler(t) ==
    LET id == new_v4 IN
    /\ arena' = Append(arena, AuthSession_new(now))
    /\ sessions' = create_session(sessions, id)
    /\ task' = [task EXCEPT ![t] = [Idle EXCEPT !.kind = "start", !.pc = "done",
                                                !.session_id = Some(id),
                                                !.resp = Some(start_ok(id))]]

\* A start request at the router without limiters (routes.rs:627-637).
start_auth(t) ==
    /\ free_slot(t)
    /\ unlocked(t, StoreLock)
    /\ Len(arena) < MaxSessions
    /\ start_auth_handler(t)
    /\ UNCHANGED << now, swept, terminal_polls >>
    /\ UNCHANGED outside_relay

callback_decide_empty_code(params, store) ==
    IF params.state = None
    THEN [Idle EXCEPT !.kind = "callback", !.pc = "done",
                      !.resp = Some(error_html(MissingState))]
    ELSE LET session == get_session(store, params.state[1]) IN
        IF session = None
        THEN [Idle EXCEPT !.kind = "callback", !.pc = "done", !.session_id = params.state,
                          !.resp = Some(error_html(SessionNotFound))]
        ELSE IF params.error # None
        THEN LET error_msg == unwrap_or(params.error_description, params.error[1]) IN
             [Idle EXCEPT !.kind = "callback", !.pc = "fail_oauth",
                          !.session_id = params.state, !.session = session,
                          !.val = Some(Failed(error_msg))]
        ELSE [Idle EXCEPT !.kind = "callback", !.pc = "exchange",
                          !.session_id = params.state, !.session = session,
                          !.exchanges = 1]

\* A handler that looks at the code before it looks at the error.
callback_decide_code_first(params, store) ==
    IF params.state = None
    THEN [Idle EXCEPT !.kind = "callback", !.pc = "done",
                      !.resp = Some(error_html(MissingState))]
    ELSE LET session == get_session(store, params.state[1]) IN
        IF session = None
        THEN [Idle EXCEPT !.kind = "callback", !.pc = "done", !.session_id = params.state,
                          !.resp = Some(error_html(SessionNotFound))]
        ELSE IF params.code # None
        THEN [Idle EXCEPT !.kind = "callback", !.pc = "exchange",
                          !.session_id = params.state, !.session = session,
                          !.exchanges = 1]
        ELSE IF params.error # None
        THEN LET error_msg == unwrap_or(params.error_description, params.error[1]) IN
             [Idle EXCEPT !.kind = "callback", !.pc = "fail_oauth",
                          !.session_id = params.state, !.session = session,
                          !.val = Some(Failed(error_msg))]
        ELSE [Idle EXCEPT !.kind = "callback", !.pc = "fail_missing_code",
                          !.session_id = params.state, !.session = session,
                          !.val = Some(Failed(MissingCode))]

\* GET /auth/callback up to its first suspension (routes.rs:133-171): an
\* early return, or the value it is about to write, or the exchange request.
callback_decide(params, store) ==
    IF params.state = None
    THEN [Idle EXCEPT !.kind = "callback", !.pc = "done",
                      !.resp = Some(error_html(MissingState))]
    ELSE LET session == get_session(store, params.state[1]) IN
        IF session = None
        THEN [Idle EXCEPT !.kind = "callback", !.pc = "done", !.session_id = params.state,
                          !.resp = Some(error_html(SessionNotFound))]
        ELSE IF params.error # None
        THEN LET error_msg == unwrap_or(params.error_description, params.error[1]) IN
             [Idle EXCEPT !.kind = "callback", !.pc = "fail_oauth",
                          !.session_id = params.state, !.session = session,
                          !.val = Some(Failed(error_msg))]
        ELSE IF params.code = None
        THEN [Idle EXCEPT !.kind = "callback", !.pc = "fail_missing_code",
                          !.session_id = params.state, !.session = session,
                          !.val = Some(Failed(MissingCode))]
        ELSE [Idle EXCEPT !.kind = "callback", !.pc = "exchange",
                          !.session_id = params.state, !.session = session,
                          !.exchanges = 1]

auth_callback_begin(t, params) ==
    /\ free_slot(t)
    /\ unlocked(t, StoreLock)
    /\ task' = [task EXCEPT ![t] = [callback_decide(params, sessions) EXCEPT !.at = now]]
    /\ UNCHANGED << sessions, arena, now, swept, terminal_polls >>
    /\ UNCHANGED outside_relay

\* The match on exchange_code's result (routes.rs:171-183): the state to store.
exchange_result(reply) ==
    LET r == exchange_code(reply) IN
    IF r.ok THEN Completed(r.access_token) ELSE Failed(r.err)

\* exchange_code(&code).await resolves (routes.rs:171).
auth_callback_exchanged(t, reply) ==
    /\ task[t].kind = "callback" /\ task[t].pc = "exchange"
    /\ task' = [task EXCEPT ![t].pc = "store_result", ![t].reply = Some(reply),
                            ![t].val = Some(exchange_result(reply))]
    /\ UNCHANGED << sessions, arena, now, swept, terminal_polls >>
    /\ UNCHANGED outside_relay

\* The page a callback answers with after its write (routes.rs:154, 165, 177, 182).
callback_page(auth_state) ==
    IF auth_state.status = "completed" THEN success_html ELSE error_html(auth_state.error)

\* *session.state.write().await = new (routes.rs:150, 162, 173, 180): the
\* assignment does not look at the old value.
write_state(old, new) == new

\* The write and the page. The write goes to the AuthSession the handler
\* holds, whether or not the store still has it.
callback_write(t) ==
    /\ task[t].kind = "callback"
    /\ task[t].pc \in { "fail_oauth", "fail_missing_code", "store_result" }
    /\ unlocked(t, StateLock(task[t].session[1]))
    /\ LET id == task[t].session[1]
           new == task[t].val[1] IN
        /\ arena' = [arena EXCEPT ![id].state = write_state(@, new)]
        /\ written' = [written EXCEPT ![id] = Some([state |-> task[t].session_id, value |-> new])]
        /\ task' = [task EXCEPT ![t].pc = "done", ![t].val = None, ![t].reply = None,
                                ![t].resp = Some(callback_page(new))]
    /\ UNCHANGED << sessions, now, swept, terminal_polls, interval >>
    /\ UNCHANGED << limiter_vars, extract_vars, local_vars, client_vars, serve_vars >>

auth_callback_write(t) ==
    /\ callback_write(t)
    /\ UNCHANGED promised

\* GET /auth/poll/{session_id}: the lookup (routes.rs:192-199).
poll_lookup(id, store) ==
    LET session == get_session(store, id) IN
    IF session = None
    THEN [Idle EXCEPT !.kind = "poll", !.pc = "done", !.session_id = Some(id),
                      !.resp = Some(poll_not_found)]
    ELSE [Idle EXCEPT !.kind = "poll", !.pc = "read", !.session_id = Some(id),
                      !.session = session]

poll_auth_begin(t, id) ==
    /\ free_slot(t)
    /\ unlocked(t, StoreLock)
    /\ task' = [task EXCEPT ![t] = [poll_lookup(id, sessions) EXCEPT !.at = now]]
    /\ UNCHANGED << sessions, arena, now, swept, terminal_polls >>
    /\ UNCHANGED outside_relay

\* session.state.read().await.clone() (routes.rs:201); a Pending read is
\* answered at once (routes.rs:204-211).
poll_read(tk, auth_state) ==
    IF is_terminal(auth_state)
    THEN [tk EXCEPT !.pc = "remove", !.val = Some(auth_state)]
    ELSE [tk EXCEPT !.pc = "done", !.resp = Some(poll_ok(auth_state))]

poll_auth_read(t) ==
    /\ task[t].kind = "poll" /\ task[t].pc = "read"
    /\ unlocked(t, StateLock(task[t].session[1]))
    /\ task' = [task EXCEPT ![t] = poll_read(@, arena[task[t].session[1]].state)]
    /\ UNCHANGED << sessions, arena, now, swept, terminal_polls >>
    /\ UNCHANGED outside_relay

\* remove_session after a terminal read, and the answer (routes.rs:204-211).
poll_auth_remove(t) ==
    /\ task[t].kind = "poll" /\ task[t].pc = "remove"
    /\ unlocked(t, StoreLock)
    /\ LET id == task[t].session[1] IN
        /\ sessions' = remove_session(sessions, id)
        /\ terminal_polls' = [terminal_polls EXCEPT ![id] = @ + 1]
    /\ task' = [task EXCEPT ![t].pc = "done", ![t].val = None,
                            ![t].resp = Some(poll_ok(task[t].val[1]))]
    /\ UNCHANGED << arena, now, swept >>
    /\ UNCHANGED outside_relay

\* The response has gone out; the handler's locals are dropped.
respond(t) ==
    /\ task[t].pc = "done"
    /\ task' = [task EXCEPT ![t] = Idle]
    /\ UNCHANGED << sessions, arena, now, swept, terminal_polls >>
    /\ UNCHANGED outside_relay

\* ---- the router with its limiters (routes.rs:640-681) ------------------------------
\* Requests to the two limited routes so far, over all keys.
requests_seen ==
    LET ks == RouterKeys
        RECURSIVE sum(_)
        sum(S) == IF S = { } THEN 0
                  ELSE LET k == CHOOSE k \in S : TRUE
                       IN start_seen[k].n + poll_seen[k] + sum(S \ { k })
    IN sum(ks)

\* The model watches MaxRequests requests to the limited routes, at most
\* MaxOtherRequests of them from the client known by its peer address.
OtherKey == << 10, 0, 0, 5 >>

within_budget(k) ==
    /\ requests_seen < MaxRequests
    /\ k = OtherKey => start_seen[k].n + poll_seen[k] < MaxOtherRequests

\* The history of /auth/start requests of one key, after one more at `at`.
seen_one_more(seen, at) ==
    [n |-> seen.n + 1, first |-> IF seen.first = None THEN Some(at) ELSE seen.first,
     last |-> Some(at)]

\* POST /auth/start behind GovernorLayer(start_limiter) (routes.rs:643-666):
\* the layer extracts the key and asks the limiter; it answers 429 itself
\* or passes the request on to start_auth.
governed_start(t, request) ==
    /\ free_slot(t)
    /\ within_budget(extract(request).key)
    /\ LET k == extract(request).key
           d == gcra(start_quota, start_limiter[k], now) IN
        /\ start_limiter' = [start_limiter EXCEPT ![k] = d.tat]
        /\ start_seen' = [start_seen EXCEPT ![k] = seen_one_more(@, now)]
        /\ IF d.ok
           THEN start_auth_handler(t)
           ELSE /\ task' = [task EXCEPT ![t] = [Idle EXCEPT !.kind = "start", !.pc = "done",
                                                  !.resp = Some(too_many_requests(d.wait))]]
                /\ UNCHANGED << sessions, arena >>
    /\ UNCHANGED << now, swept, terminal_polls, poll_limiter, poll_seen, throttled >>
    /\ UNCHANGED << written, interval, promised >>
    /\ UNCHANGED << extract_vars, local_vars, client_vars, serve_vars >>

\* The session a rejected poll names, if it is in the store with a result.
held_back(id) ==
    IF id \in sessions /\ is_terminal(arena[id].state) THEN { id } ELSE { }

governed_poll_shared_bucket(t, request, id) ==
    /\ free_slot(t)
    /\ within_budget(extract(request).key)
    /\ LET k == extract(request).key
           d == gcra(poll_quota, start_limiter[k], now) IN
        /\ start_limiter' = [start_limiter EXCEPT ![k] = d.tat]
        /\ poll_seen' = [poll_seen EXCEPT ![k] = @ + 1]
        /\ IF d.ok
           THEN task' = [task EXCEPT ![t] = poll_lookup(id, sessions)] /\ UNCHANGED throttled
           ELSE /\ task' = [task EXCEPT ![t] = [Idle EXCEPT !.kind = "poll", !.pc = "done",
                                                  !.session_id = Some(id),
                                                  !.resp = Some(too_many_requests(d.wait))]]
                /\ throttled' = throttled \cup held_back(id)
    /\ UNCHANGED << sessions, arena, now, swept, terminal_polls, poll_limiter, start_seen >>
    /\ UNCHANGED << written, interval, promised >>
    /\ UNCHANGED << extract_vars, local_vars, client_vars, serve_vars >>

governed_poll_handler_first(t, request, id) ==
    /\ free_slot(t)
    /\ within_budget(extract(request).key)
    /\ LET k == extract(request).key
           d == gcra(poll_quota, poll_limiter[k], now)
           looked == poll_lookup(id, sessions)
           removes == ~ d.ok /\ looked.session # None
                      /\ is_terminal(arena[looked.session[1]].state) IN
        /\ poll_limiter' = [poll_limiter EXCEPT ![k] = d.tat]
        /\ poll_seen' = [poll_seen EXCEPT ![k] = @ + 1]
        /\ sessions' = IF removes THEN remove_session(sessions, looked.session[1]) ELSE sessions
        /\ IF d.ok
           THEN task' = [task EXCEPT ![t] = looked] /\ UNCHANGED throttled
           ELSE /\ task' = [task EXCEPT ![t] = [Idle EXCEPT !.kind = "poll", !.pc = "done",
                                                  !.session_id = Some(id),
                                                  !.resp = Some(too_many_requests(d.wait))]]
                /\ throttled' = throttled \cup held_back(id)
    /\ UNCHANGED << arena, now, swept, terminal_polls, start_limiter, start_seen >>
    /\ UNCHANGED << written, interval, promised >>
    /\ UNCHANGED << extract_vars, local_vars, client_vars, serve_vars >>

\* GET /auth/poll/{session_id} behind GovernorLayer(poll_limiter)
\* (routes.rs:654-670): 429 from the layer, or poll_auth's lookup.
governed_poll(t, request, id) ==
    /\ free_slot(t)
    /\ within_budget(extract(request).key)
    /\ LET k == extract(request).key
           d == gcra(poll_quota, poll_limiter[k], now) IN
        /\ poll_limiter' = [poll_limiter EXCEPT ![k] = d.tat]
        /\ poll_seen' = [poll_seen EXCEPT ![k] = @ + 1]
        /\ IF d.ok
           THEN task' = [task EXCEPT ![t] = poll_lookup(id, sessions)] /\ UNCHANGED throttled
           ELSE /\ task' = [task EXCEPT ![t] = [Idle EXCEPT !.kind = "poll", !.pc = "done",
                                                  !.session_id = Some(id),
                                                  !.resp = Some(too_many_requests(d.wait))]]
                /\ throttled' = throttled \cup held_back(id)
    /\ UNCHANGED << sessions, arena, now, swept, terminal_polls, start_limiter, start_seen >>
    /\ UNCHANGED << written, interval, promised >>
    /\ UNCHANGED << extract_vars, local_vars, client_vars, serve_vars >>

\* GET /health (routes.rs:215-221), which no layer wraps.
health(t) ==
    /\ free_slot(t)
    /\ task' = [task EXCEPT ![t] = [Idle EXCEPT !.kind = "health", !.pc = "done",
                                                !.resp = Some(health_ok)]]
    /\ UNCHANGED << sessions, arena, now, swept, terminal_polls >>
    /\ UNCHANGED outside_relay

\* Time passes between requests, in steps shorter than the start limiter's
\* replenish interval.
ElapseSteps == { 3 }

Elapse ==
    /\ \E d \in ElapseSteps : now + d <= MaxClock /\ now' = now + d
    /\ UNCHANGED << sessions, arena, task, swept, terminal_polls >>
    /\ UNCHANGED outside_relay

\* SessionStore::cleanup_expired (auth.rs:67-70).
cleanup_pass ==
    /\ unlocked(0, StoreLock)
    /\ sessions' = retain_unexpired(sessions, now)
    /\ swept' = swept \cup { id \in 1 .. Len(arena) : now - arena[id].created_at > SESSION_TTL }
    /\ UNCHANGED << arena, now, task, terminal_polls, written, promised >>
    /\ UNCHANGED << limiter_vars, extract_vars, local_vars, client_vars, serve_vars >>

\* One pass of the cleanup task (auth.rs:68-70, 139-140), at any instant.
cleanup_expired ==
    /\ cleanup_pass
    /\ UNCHANGED interval

next_deadline_skips(deadline) == deadline + 2 * CLEANUP_INTERVAL

\* Interval::tick: the deadline after this one is one period later.
next_deadline(deadline) == deadline + CLEANUP_INTERVAL

\* The loop of spawn_cleanup_task (auth.rs:137-142): the tick completes at
\* its deadline, the first one at once, and the pass runs then.
cleanup_task ==
    /\ now = interval
    /\ cleanup_pass
    /\ interval' = next_deadline(interval)

\* Time passes, but not past a tick of the cleanup task that is due.
PassSteps == { 30 }

Pass ==
    /\ \E d \in PassSteps :
          /\ now + d <= interval
          /\ now + d <= MaxTime
          /\ now' = now + d
    /\ UNCHANGED << sessions, arena, task, swept, terminal_polls >>
    /\ UNCHANGED outside_relay

\* Time passes: by the TTL exactly, or by a second more.
TickSteps == { SESSION_TTL, SESSION_TTL + 1 }
Ticks == now \div SESSION_TTL

Tick ==
    /\ Ticks < MaxTicks
    /\ \E d \in TickSteps : now' = now + d
    /\ UNCHANGED << sessions, arena, task, swept, terminal_polls >>
    /\ UNCHANGED outside_relay

\* The handlers, interleaved at their suspension points, within one TTL of
\* the first session.
Next ==
    \/ \E t \in Tasks : start_auth(t)
    \/ \E t \in Tasks, params \in CallbackParams : auth_callback_begin(t, params)
    \/ \E t \in Tasks, reply \in ProviderReplies : auth_callback_exchanged(t, reply)
    \/ \E t \in Tasks : auth_callback_write(t)
    \/ \E t \in Tasks, id \in IdStrings : poll_auth_begin(t, id)
    \/ \E t \in Tasks : poll_auth_read(t)
    \/ \E t \in Tasks : poll_auth_remove(t)
    \/ \E t \in Tasks : respond(t)

Spec == Init /\ [][Next]_vars

\* The handlers together with the clock and the cleanup task.
NextSweep ==
    \/ \E t \in Tasks : start_auth(t)
    \/ \E t \in Tasks, params \in SweepCallbackParams : auth_callback_begin(t, params)
    \/ \E t \in Tasks, reply \in SweepReplies : auth_callback_exchanged(t, reply)
    \/ \E t \in Tasks : auth_callback_write(t)
    \/ \E t \in Tasks, id \in IdStrings : poll_auth_begin(t, id)
    \/ \E t \in Tasks : poll_auth_read(t)
    \/ \E t \in Tasks : poll_auth_remove(t)
    \/ \E t \in Tasks : respond(t)
    \/ cleanup_expired
    \/ Tick

SpecSweep == Init /\ [][NextSweep]_vars

\* The handlers one request at a time: a request starts only when no other
\* is in flight.
Quiet == \A t \in Tasks : task[t].kind = "idle"

NextSeq ==
    \/ Quiet /\ \E t \in Tasks : start_auth(t)
    \/ Quiet /\ \E t \in Tasks, params \in CallbackParams : auth_callback_begin(t, params)
    \/ \E t \in Tasks, reply \in ProviderReplies : auth_callback_exchanged(t, reply)
    \/ \E t \in Tasks : auth_callback_write(t)
    \/ Quiet /\ \E t \in Tasks, id \in IdStrings : poll_auth_begin(t, id)
    \/ \E t \in Tasks : poll_auth_read(t)
    \/ \E t \in Tasks : poll_auth_remove(t)
    \/ \E t \in Tasks : respond(t)

SpecSeq == Init /\ [][NextSeq]_vars

\* The handlers one request at a time, with the clock and the cleanup task
\* on its 60-second interval.
NextTimed ==
    \/ Quiet /\ \E t \in Tasks : start_auth(t)
    \/ Quiet /\ \E t \in Tasks, params \in SweepCallbackParams : auth_callback_begin(t, params)
    \/ \E t \in Tasks, reply \in SweepReplies : auth_callback_exchanged(t, reply)
    \/ \E t \in Tasks : auth_callback_write(t)
    \/ Quiet /\ \E t \in Tasks, id \in IdStrings : poll_auth_begin(t, id)
    \/ \E t \in Tasks : poll_auth_read(t)
    \/ \E t \in Tasks : poll_auth_remove(t)
    \/ \E t \in Tasks : respond(t)
    \/ cleanup_task
    \/ Pass

SpecTimed == Init /\ [][NextTimed]_vars

\* The router of create_router, one request at a time: the limited routes,
\* the callback of a provider error, /health, and the clock.
RouterIds == { 1 }

RouterCallbackParams ==
    [ code : { None }, state : { Some(1) },
      error : { Some(<< "access_denied" >>) }, error_description : { None } ]

NextRouter ==
    \/ Quiet /\ \E t \in Tasks, request \in RouterRequests : governed_start(t, request)
    \/ Quiet /\ \E t \in Tasks, request \in RouterRequests, id \in RouterIds :
          governed_poll(t, request, id)
    \/ Quiet /\ \E t \in Tasks, params \in RouterCallbackParams : auth_callback_begin(t, params)
    \/ \E t \in Tasks : auth_callback_write(t)
    \/ \E t \in Tasks : poll_auth_read(t)
    \/ \E t \in Tasks : poll_auth_remove(t)
    \/ Quiet /\ \E t \in Tasks : health(t)
    \/ \E t \in Tasks : respond(t)
    \/ Elapse

SpecRouter == Init /\ [][NextRouter]_vars

\* One key extraction: any request, then extract.
extract_key ==
    /\ key = None
    /\ key' = Some(extract(req))
    /\ UNCHANGED << req, relay_vars, limiter_vars, local_vars, client_vars, serve_vars >>

InitExtract ==
    /\ relay_init /\ limiter_init /\ local_init /\ client_init /\ serve_init
    /\ req \in Requests
    /\ key = None

SpecExtract == InitExtract /\ [][extract_key]_vars

\* The local login flow and the /callback requests at its listener.
Booleans == { TRUE, FALSE }

NextLocal ==
    \/ login_begin
    \/ \E opened \in Booleans : login_open_browser(opened)
    \/ \E generated \in Booleans : login_generate_cert(generated)
    \/ \E loaded \in Booleans : login_tls_config(loaded)
    \/ \E bound \in Booleans : login_bind(bound)
    \/ server_terminates
    \/ login_select
    \/ \E reply \in ProviderReplies : login_exchange(reply)
    \/ \E h \in Tasks, params \in LocalCallbackParams : local_callback_begin(h, params)
    \/ \E h \in Tasks : local_callback_take(h)
    \/ \E h \in Tasks : local_callback_send(h)
    \/ \E h \in Tasks : local_callback_respond(h)
    \/ \E h \in Tasks : local_callback_return(h)
    \/ \E h \in Tasks, path \in StaticRoutes : local_static_begin(h, path)
    \/ \E h \in Tasks : local_static_return(h)

SpecLocal == Init /\ [][NextLocal]_vars

\* The runtime keeps running a task that can run: the select resolves once
\* a branch is ready, and a request in flight takes its next step.
SpecLocalLive ==
    /\ SpecLocal
    /\ WF_vars(login_select)
    /\ \A h \in Tasks : WF_vars(local_callback_step(h))

\* The polling client against any relay.
NextClient ==
    \/ \E reply \in StartReplies : hosted_start(reply)
    \/ \E opened \in Booleans : hosted_open_browser(opened)
    \/ hosted_loop
    \/ hosted_sleep
    \/ \E reply \in PollReplies : hosted_poll(reply)

SpecClient == Init /\ [][NextClient]_vars

\* The runtime runs hosted_login on: its timer fires and each request it
\* sends comes back with an answer or an error.
SpecClientLive == SpecClient /\ WF_vars(hosted_step)

\* ---- the polling client at the relay's poll limiter -----------------------------
\* The time a poll and its answer take on the way, in seconds.
MaxLatency == 1

\* The key the relay's limiters know the client by.
ClientKey == extract([BareRequest EXCEPT !.connect_info = Some(<< 10, 0, 0, 5 >>)]).key

\* What poll_auth answers a poll that the layer lets through, and a failure
\* to send.
RelayPollReplies ==
    { [kind |-> "send_error", detail |-> "connection reset"],
      [kind |-> "response", response |-> poll_not_found],
      [kind |-> "response", response |-> poll_ok(Pending)],
      [kind |-> "response", response |-> poll_ok(Completed("tokA"))] }

\* The client's sleep with the clock: the timer fires after two seconds, and
\* the request that follows is some time on its way.
paced_sleep(latency) ==
    /\ client.pc = "sleep"
    /\ client' = after_sleep(client)
    /\ now' = now + POLL_INTERVAL + latency
    /\ UNCHANGED << sessions, arena, task, swept, terminal_polls, written, interval, promised >>
    /\ UNCHANGED << limiter_vars, extract_vars, local_vars, serve_vars >>

\* The client's poll at GovernorLayer(poll_limiter) (routes.rs:654-670): the
\* layer answers 429 itself or lets the request through to poll_auth.
paced_poll(reply) ==
    /\ client.pc = "poll"
    /\ LET d == gcra(poll_quota, poll_limiter[ClientKey], now)
           answer == IF d.ok THEN reply
                     ELSE [kind |-> "response", response |-> too_many_requests(d.wait)] IN
        /\ poll_limiter' = [poll_limiter EXCEPT ![ClientKey] = d.tat]
        /\ poll_seen' = [poll_seen EXCEPT ![ClientKey] = @ + 1]
        /\ client' = after_poll(client, answer)
    /\ UNCHANGED << start_limiter, start_seen, throttled >>
    /\ UNCHANGED << relay_vars, extract_vars, local_vars, serve_vars >>

NextPaced ==
    \/ \E reply \in StartReplies : hosted_start(reply)
    \/ \E opened \in Booleans : hosted_open_browser(opened)
    \/ hosted_loop
    \/ \E latency \in 0 .. MaxLatency : paced_sleep(latency)
    \/ \E reply \in RelayPollReplies : paced_poll(reply)

SpecPaced == Init /\ [][NextPaced]_vars

\* ---- the polling client against the relay ---------------------------------------
\* The callbacks that reach the relay during one hosted login: the provider's
\* redirect with a code, and one with an error.
FlowCallbackParams ==
    [ code : { Some("abc") }, state : { Some(id) : id \in IdStrings },
      error : { None }, error_description : { None } ]
    \cup [ code : { None }, state : { Some(id) : id \in IdStrings },
           error : { Some(e) : e \in ErrorValues }, error_description : { None } ]

\* The client's request in flight at the relay.
ClientRequests == { t \in Tasks : task[t].kind \in { "start", "poll" } }

\* hosted_login's POST /auth/start (oauth.rs:259-274) served by start_auth
\* (routes.rs:115-125), which has no suspension.
flow_start(t) ==
    /\ client.pc = "idle"
    /\ free_slot(t)
    /\ unlocked(t, StoreLock)
    /\ Len(arena) < MaxSessions
    /\ start_auth_handler(t)
    /\ client' = after_start(client, [kind |-> "response", response |-> start_ok(new_v4)])
    /\ UNCHANGED << now, swept, terminal_polls, written, interval, promised >>
    /\ UNCHANGED << limiter_vars, extract_vars, local_vars, serve_vars >>

\* The client sends GET /auth/poll/{session_id} (oauth.rs:291-295) and
\* poll_auth looks the session up (routes.rs:192-199).
flow_poll_send(t) ==
    /\ client.pc = "poll"
    /\ ClientRequests = { }
    /\ free_slot(t)
    /\ unlocked(t, StoreLock)
    /\ task' = [task EXCEPT ![t] = [poll_lookup(client.session_id[1], sessions)
                                       EXCEPT !.at = now]]
    /\ client' = [client EXCEPT !.pc = "await"]
    /\ UNCHANGED << sessions, arena, now, swept, terminal_polls, written, interval, promised >>
    /\ UNCHANGED << limiter_vars, extract_vars, local_vars, serve_vars >>

\* poll_auth's answer reaches the client, which goes on with its loop or
\* returns (oauth.rs:297-323).
flow_poll_receive(t) ==
    /\ client.pc = "await"
    /\ task[t].kind = "poll" /\ task[t].pc = "done"
    /\ client' = after_poll(client, [kind |-> "response", response |-> task[t].resp[1]])
    /\ task' = [task EXCEPT ![t] = Idle]
    /\ UNCHANGED << sessions, arena, now, swept, terminal_polls, written, interval, promised >>
    /\ UNCHANGED << limiter_vars, extract_vars, local_vars, serve_vars >>

\* The client is in its loop and has a poll to come after the one in flight.
AttemptsLeft ==
    \/ client.pc \in { "loop", "sleep", "poll" } /\ client.polls < POLL_ATTEMPTS
    \/ client.pc = "await" /\ client.polls + 1 < POLL_ATTEMPTS

\* A callback's write, with the first token stored for the client's session
\* while the client has attempts left kept as history.
flow_callback_write(t) ==
    /\ callback_write(t)
    /\ promised' =
          IF /\ promised = None
             /\ task[t].val[1].status = "completed"
             /\ arena'[task[t].session[1]].state = task[t].val[1]
             /\ client.session_id = task[t].session
             /\ task[t].session[1] \in sessions
             /\ AttemptsLeft
          THEN Some(task[t].val[1].access_token)
          ELSE promised

NextFlow ==
    \/ \E t \in Tasks : flow_start(t)
    \/ \E opened \in Booleans : hosted_open_browser(opened)
    \/ hosted_loop
    \/ hosted_sleep
    \/ \E t \in Tasks : flow_poll_send(t)
    \/ \E t \in Tasks : poll_auth_read(t)
    \/ \E t \in Tasks : poll_auth_remove(t)
    \/ \E t \in Tasks : flow_poll_receive(t)
    \/ \E t \in Tasks, params \in FlowCallbackParams : auth_callback_begin(t, params)
    \/ \E t \in Tasks, reply \in SweepReplies : auth_callback_exchanged(t, reply)
    \/ \E t \in Tasks : flow_callback_write(t)
    \/ \E t \in Tasks : task[t].kind # "poll" /\ respond(t)

SpecFlow == Init /\ [][NextFlow]_vars

\* The relay's serve call from its start to its return.
NextServe ==
    \/ \E mode \in ServeModes : serve_begin(mode)
    \/ accept_connection
    \/ connection_done
    \/ \E sig \in Signals : signal_received(sig)
    \/ serve_drained
    \/ grace_tick
    \/ force_close

SpecServe == Init /\ [][NextServe]_vars

\* ---- properties ---------------------------------------------------------------
Terminal == { "completed", "failed" }

\* Request t is a handler of kind k that starts in this step.
Starts(t, k) == task[t].kind = "idle" /\ task'[t].kind = k

\* Request t is a handler of kind k at position pc that moves in this step.
Leaves(t, k, pc) == task[t].kind = k /\ task[t].pc = pc /\ task'[t] # task[t]

\* The session a suspended request holds.
Held(t) == task[t].session[1]

\* C1: a session's state changes only from Pending to Completed or from
\* Pending to Failed: it never goes back to Pending and a terminal value is
\* never replaced.
C1_OneWayTransitions ==
    [][\A id \in 1 .. Len(arena) :
          arena'[id].state # arena[id].state
          => /\ arena[id].state.status = "pending"
             /\ arena'[id].state.status \in Terminal]_vars

\* C2: a callback for a session that is already Completed or Failed is a
\* no-op: when it finishes, the session holds what it held before.
C2_TerminalCallbackIsNoOp ==
    [][\A t \in Tasks :
          (/\ task[t].kind = "callback" /\ task[t].pc # "done" /\ task'[t].pc = "done"
           /\ task[t].session # None
           /\ arena[Held(t)].state.status \in Terminal)
          => arena'[Held(t)].state = arena[Held(t)].state]_vars

\* C3: among all polls of one session, at most one is answered completed
\* or failed.
C3_AtMostOneTerminalPoll ==
    \A id \in SessionIds : terminal_polls[id] <= 1

\* C4: once a poll of a session has been answered completed or failed, the
\* session is not in the store, and every poll of it that starts afterwards
\* is answered 404.
C4_TerminalPollRemoves ==
    /\ [](\A id \in SessionIds : terminal_polls[id] > 0 => id \notin sessions)
    /\ [][\A t \in Tasks :
            (/\ Starts(t, "poll")
             /\ task'[t].session_id[1] \in SessionIds
             /\ terminal_polls[task'[t].session_id[1]] > 0)
            => /\ task'[t].pc = "done"
               /\ task'[t].resp[1].status = 404]_vars

C4_Witness ==
    \E t \in Tasks, id \in SessionIds :
        /\ terminal_polls[id] > 0
        /\ task[t].kind = "poll" /\ task[t].pc = "done"
        /\ task[t].session_id = Some(id)
        /\ task[t].resp[1].status = 404

\* C5: a poll that reads Pending is answered pending and changes neither the
\* store nor any session; no step of a poll changes a session's state, and a
\* poll takes a session out of the store only after reading Completed or
\* Failed, and then only that session.
C5_PendingPollFrame ==
    [][\A t \in Tasks :
          (Starts(t, "poll") \/ (task[t].kind = "poll" /\ task'[t] # task[t]))
          => /\ arena' = arena
             /\ (Leaves(t, "poll", "read") /\ arena[Held(t)].state.status = "pending")
                => /\ task'[t].pc = "done"
                   /\ task'[t].resp = Some([status |-> 200,
                                            content_type |-> "application/json",
                                            json |-> [status |-> "pending"]])
                   /\ sessions' = sessions
             /\ sessions' # sessions
                => /\ task[t].pc = "remove"
                   /\ task[t].val[1].status \in Terminal
                   /\ sessions' = sessions \ { Held(t) }]_vars

C5_Witness ==
    \E t \in Tasks :
        /\ task[t].kind = "poll" /\ task[t].pc = "done"
        /\ task[t].resp[1].status = 200
        /\ task[t].resp[1].json.status = "pending"
        /\ Held(t) \in sessions
        /\ arena[Held(t)].state.status = "pending"

\* C6: after a cleanup pass no session that was older than the TTL at that
\* pass is in the store, whatever its state, and every poll of such a session
\* that starts afterwards is answered 404.
C6_SweepPurgesExpired ==
    /\ [](swept \cap sessions = { })
    /\ [][\A t \in Tasks :
            (Starts(t, "poll") /\ task'[t].session_id[1] \in swept)
            => /\ task'[t].pc = "done"
               /\ task'[t].resp[1].status = 404]_vars

C6_Witness ==
    \E t \in Tasks, id \in swept :
        /\ terminal_polls[id] = 0
        /\ arena[id].state.status = "completed"
        /\ task[t].kind = "poll" /\ task[t].pc = "done"
        /\ task[t].session_id = Some(id)
        /\ task[t].resp[1].status = 404

\* C7: a callback whose state parameter is missing or names no session in
\* the store is answered with the error page at once: it sends no token
\* request, holds no session and leaves the store and every session as
\* they were.
C7_UnknownCallbackFrame ==
    [][\A t \in Tasks :
          (/\ Starts(t, "callback")
           /\ \/ task'[t].session_id = None
              \/ task'[t].session_id[1] \notin sessions)
          => /\ task'[t].pc = "done"
             /\ task'[t].session = None
             /\ task'[t].exchanges = 0
             /\ task'[t].resp[1].status = 200
             /\ task'[t].resp[1].content_type = "text/html"
             /\ task'[t].resp[1].heading = "Authorization Failed"
             /\ sessions' = sessions
             /\ arena' = arena]_vars

C7_Witness ==
    \E t \in Tasks :
        /\ task[t].kind = "callback" /\ task[t].pc = "done"
        /\ task[t].session_id # None
        /\ task[t].session = None
        /\ task[t].resp[1].text = << "Session not found or expired" >>
        /\ sessions # { }

\* Callbacks by what they carry: a code and no error, neither, an error.
CodeParams == { q \in CallbackParams : q.error = None /\ q.code # None }
NoCodeParams == { q \in CallbackParams : q.error = None /\ q.code = None }
ErrorParams == { q \in CallbackParams : q.error # None }

\* The request parameters name a session that is in the store.
NamesPresent(params) == params.state # None /\ params.state[1] \in sessions

\* What the callback must store for a reply of the token endpoint.
ExpectedState(reply) ==
    IF reply.kind = "send_error"
    THEN [status |-> "failed", error |-> << "Request failed: ", "connection refused" >>]
    ELSE IF reply.status = 400
    THEN [status |-> "failed",
          error |-> << "HTTP ", "400 Bad Request", ": ", "{", "\"", "error", "\"", "}" >>]
    ELSE IF reply.body = << "not json" >>
    THEN [status |-> "failed", error |-> << "Parse error: ", "expected value" >>]
    ELSE [status |-> "completed", access_token |-> reply.body[2]]

\* C8: a callback with a code and no error for a session in the store sends
\* one token request; when the reply is in, it stores Completed with the
\* reply's access token, or Failed with the exchange error, in that session.
C8_ExchangeOutcome ==
    [][\A t \in Tasks :
          /\ Starts(t, "callback")
             => \A params \in CodeParams :
                   (NamesPresent(params) /\ task'[t] = callback_decide(params, sessions))
                   => /\ task'[t].pc = "exchange"
                      /\ task'[t].exchanges = 1
                      /\ task'[t].session = params.state
          /\ Leaves(t, "callback", "exchange")
             => /\ task'[t].pc = "store_result"
                /\ task'[t].exchanges = 1
                /\ task'[t].reply \in { Some(r) : r \in ProviderReplies }
                /\ arena' = arena
          /\ Leaves(t, "callback", "store_result")
             => /\ task'[t].pc = "done"
                /\ task'[t].exchanges = 1
                /\ arena'[Held(t)].state = ExpectedState(task[t].reply[1])
                /\ \A id \in 1 .. Len(arena) :
                      id # Held(t) => arena'[id] = arena[id]]_vars

C8_Witness ==
    \E t \in Tasks :
        /\ task[t].kind = "callback" /\ task[t].pc = "done"
        /\ task[t].exchanges = 1
        /\ task[t].resp[1].heading = "Authorization Complete"
        /\ Held(t) \in sessions
        /\ arena[Held(t)].state = [status |-> "completed", access_token |-> "tokB"]

\* The text a browser shows for escaped page text.
RECURSIVE Rendered(_)
Rendered(s) ==
    IF s = << >> THEN << >>
    ELSE IF Head(s) = "&" /\ Len(s) >= 2
    THEN << CASE s[2] = "amp;" -> "&" [] s[2] = "lt;" -> "<"
              [] s[2] = "gt;" -> ">" [] OTHER -> "\"" >> \o Rendered(Tail(Tail(s)))
    ELSE << Head(s) >> \o Rendered(Tail(s))

\* The message of a provider error: error_description when given, else error.
OAuthMessage(params) ==
    IF params.error_description # None THEN params.error_description[1]
    ELSE params.error[1]

OAuthMessages == { OAuthMessage(params) : params \in ErrorParams }

\* C9: a callback with an error parameter for a Pending session in the store
\* stores Failed with the message (error_description when given, else
\* error) and shows the message on its page; the session then keeps that
\* state while it is in the store, so that the next poll is answered failed
\* with exactly that message.
C9_ErrorCallbackResult ==
    [][/\ \A t \in Tasks :
            /\ Starts(t, "callback")
               => \A params \in ErrorParams :
                     (/\ NamesPresent(params)
                      /\ arena[params.state[1]].state.status = "pending"
                      /\ task'[t] = callback_decide(params, sessions))
                     => /\ task'[t].pc = "fail_oauth"
                        /\ task'[t].val = Some([status |-> "failed",
                                                error |-> OAuthMessage(params)])
            /\ Leaves(t, "callback", "fail_oauth")
               => /\ arena'[Held(t)].state = task[t].val[1]
                  /\ Rendered(task'[t].resp[1].text) = task[t].val[1].error
       /\ \A id \in sessions :
            (/\ arena[id].state.status = "failed"
             /\ arena[id].state.error \in OAuthMessages)
            => arena'[id].state = arena[id].state]_vars

\* C10: a callback with neither a code nor an error for a session in the
\* store sends no token request, stores Failed "Missing authorization code"
\* in that session and answers with the error page showing that text.
C10_MissingCodeFails ==
    [][\A t \in Tasks :
          /\ Starts(t, "callback")
             => \A params \in NoCodeParams :
                   (NamesPresent(params) /\ task'[t] = callback_decide(params, sessions))
                   => /\ task'[t].pc = "fail_missing_code"
                      /\ task'[t].exchanges = 0
                      /\ task'[t].session = params.state
          /\ Leaves(t, "callback", "fail_missing_code")
             => /\ task'[t].pc = "done"
                /\ task'[t].exchanges = 0
                /\ arena'[Held(t)].state =
                      [status |-> "failed", error |-> << "Missing authorization code" >>]
                /\ task'[t].resp = Some([status |-> 200, content_type |-> "text/html",
                                         heading |-> "Authorization Failed",
                                         text |-> << "Missing authorization code" >>])]_vars

C10_Witness ==
    \E t \in Tasks :
        /\ task[t].kind = "callback" /\ task[t].pc = "done"
        /\ task[t].exchanges = 0
        /\ task[t].resp[1].text = << "Missing authorization code" >>
        /\ Held(t) \in sessions
        /\ arena[Held(t)].state.status = "failed"
        /\ arena[Held(t)].state.error = << "Missing authorization code" >>

\* C11: every callback is answered 200 with an HTML page, whichever way it
\* went: missing state, unknown session, provider error, missing code,
\* failed exchange or token. The page of a success carries no token: the
\* result is to be had from poll.
C11_CallbackAlways200 ==
    \A t \in Tasks :
        (task[t].kind = "callback" /\ task[t].pc = "done")
        => /\ task[t].resp # None
           /\ task[t].resp[1].status = 200
           /\ task[t].resp[1].content_type = "text/html"
           /\ task[t].resp[1].heading \in { "Authorization Failed", "Authorization Complete" }
           /\ task[t].resp[1].heading = "Authorization Complete" => task[t].resp[1].text = << >>

C11_Witness ==
    \E t \in Tasks :
        /\ task[t].kind = "callback" /\ task[t].pc = "done"
        /\ task[t].exchanges = 1
        /\ task[t].resp[1].status = 200
        /\ task[t].resp[1].heading = "Authorization Failed"
        /\ arena[Held(t)].state.status = "failed"
        /\ arena[Held(t)].state.error[1] = "HTTP "

\* The 404 of a poll.
NotFoundBody ==
    [status |-> 404, content_type |-> "application/json",
     json |-> [error |-> << "Session not found or expired" >>]]

\* C12: a poll is answered 404 with an error body exactly when the id is
\* not in the store at its lookup; a poll that found the session is answered
\* 200 with the state it reads: pending, completed with the stored token, or
\* failed with the stored error.
C12_PollNotFoundIffAbsent ==
    [][\A t \in Tasks :
          /\ Starts(t, "poll")
             => /\ (task'[t].session_id[1] \notin sessions)
                   <=> (task'[t].pc = "done" /\ task'[t].resp = Some(NotFoundBody))
                /\ (task'[t].session_id[1] \in sessions)
                   => (task'[t].pc = "read" /\ task'[t].session = task'[t].session_id)
          /\ Leaves(t, "poll", "read")
             => IF arena[Held(t)].state.status = "pending"
                THEN task'[t].resp = Some([status |-> 200, content_type |-> "application/json",
                                           json |-> [status |-> "pending"]])
                ELSE task'[t].pc = "remove" /\ task'[t].val = Some(arena[Held(t)].state)
          /\ Leaves(t, "poll", "remove")
             => /\ task'[t].resp[1].status = 200
                /\ task'[t].resp[1].content_type = "application/json"
                /\ task'[t].resp[1].json.status = task[t].val[1].status
                /\ task[t].val[1].status = "completed"
                   => task'[t].resp[1].json.access_token = task[t].val[1].access_token
                /\ task[t].val[1].status = "failed"
                   => task'[t].resp[1].json.error = task[t].val[1].error]_vars

C12_Witness ==
    \E t \in Tasks :
        /\ task[t].kind = "poll" /\ task[t].pc = "done"
        /\ task[t].resp[1].status = 200
        /\ task[t].resp[1].json.status = "completed"
        /\ task[t].resp[1].json.access_token = "tokA"
        /\ arena[Held(t)].state = [status |-> "completed", access_token |-> "tokA"]

\* C13: a start request that reaches the handler creates one session: its
\* id is new, it is Pending, it is in the store when the response exists,
\* the response names it as session_id and as the state parameter at the end
\* of auth_url, a poll of it in the state just reached is answered pending,
\* and no session that existed is changed or taken out.
C13_StartCreatesOneSession ==
    [][\A t \in Tasks :
          (Starts(t, "start") /\ task'[t].resp[1].status = 200)
          => LET id == task'[t].resp[1].json.session_id
                 url == task'[t].resp[1].json.auth_url IN
             /\ id \notin sessions
             /\ id \notin 1 .. Len(arena)
             /\ sessions' = sessions \cup { id }
             /\ Len(arena') = Len(arena) + 1
             /\ arena'[id] = [state |-> [status |-> "pending"], created_at |-> now]
             /\ \A old \in 1 .. Len(arena) : arena'[old] = arena[old]
             /\ Len(url) >= 3
             /\ url[Len(url)] = id /\ url[Len(url) - 1] = "state=" /\ url[Len(url) - 2] = "&"
             /\ poll_read(poll_lookup(id, sessions'), arena'[id].state).resp
                   = Some([status |-> 200, content_type |-> "application/json",
                           json |-> [status |-> "pending"]])]_vars

C13_Witness ==
    \E t \in Tasks :
        /\ task[t].kind = "start" /\ task[t].pc = "done"
        /\ task[t].resp[1].json.session_id = 2
        /\ sessions = { 1, 2 }
        /\ arena[1].state.status = "completed"
        /\ arena[2].state.status = "pending"
        /\ arena[2].created_at > arena[1].created_at

\* A response of the limiter, and one of a handler.
Rejected(t) == task'[t].resp # None /\ task'[t].resp[1].status = 429
Admitted(t) == ~ Rejected(t)

\* The key whose /auth/start request this step is, and likewise /auth/poll.
StartOf(k) == start_seen'[k] # start_seen[k]
PollOf(k) == poll_seen'[k] # poll_seen[k]

\* C14: of the /auth/start requests of one key, the first 10 are accepted
\* and reach the handler; the 11th, when it comes less than 6 s after the
\* first, is rejected and creates no session; and a request that comes 6 s
\* or more after the key's previous one is accepted.
C14_StartBurstAndRefill ==
    [][\A k \in RouterKeys, t \in Tasks :
          (StartOf(k) /\ Starts(t, "start"))
          => /\ start_seen[k].n < 10
                => (Admitted(t) /\ Len(arena') = Len(arena) + 1)
             /\ (start_seen[k].n = 10 /\ now < start_seen[k].first[1] + 6)
                => (Rejected(t) /\ arena' = arena /\ sessions' = sessions)
             /\ (start_seen[k].last # None /\ now >= start_seen[k].last[1] + 6)
                => (Admitted(t) /\ Len(arena') = Len(arena) + 1)]_vars

C14_Witness ==
    \E t \in Tasks, k \in RouterKeys :
        /\ task[t].kind = "start" /\ task[t].pc = "done"
        /\ task[t].resp[1].status = 429
        /\ start_seen[k] = [n |-> 11, first |-> Some(0), last |-> Some(3)]
        /\ now = 3
        /\ Len(arena) = 10

\* C15: a /auth/start request changes only the start limiter's state of
\* its own key, a /auth/poll request only the poll limiter's state of its
\* own key, and nothing else changes a limiter; a request is rejected only
\* after 10 earlier requests of the same key to the same route; callbacks and
\* /health are never rejected.
C15_BucketsIndependent ==
    [][/\ \A k \in RouterKeys :
            /\ start_limiter'[k] # start_limiter[k] => StartOf(k)
            /\ poll_limiter'[k] # poll_limiter[k] => PollOf(k)
            /\ StartOf(k) => (poll_limiter' = poll_limiter /\ poll_seen' = poll_seen)
            /\ PollOf(k) => (start_limiter' = start_limiter /\ start_seen' = start_seen)
            /\ \A t \in Tasks :
                  /\ (StartOf(k) /\ Starts(t, "start") /\ Rejected(t))
                     => start_seen[k].n >= 10
                  /\ (PollOf(k) /\ Starts(t, "poll") /\ Rejected(t))
                     => poll_seen[k] >= 10
       /\ \A t \in Tasks :
            (Starts(t, "callback") \/ Starts(t, "health"))
            => /\ Admitted(t)
               /\ start_limiter' = start_limiter /\ poll_limiter' = poll_limiter]_vars

\* The start bucket of key k is empty at this instant.
StartExhausted(k) == ~ gcra(start_quota, start_limiter[k], now).ok

C15_Witness ==
    \E t \in Tasks, k \in RouterKeys :
        /\ StartExhausted(k)
        /\ poll_seen[k] = 1
        /\ \A j \in RouterKeys \ { k } : poll_seen[j] = 0
        /\ task[t].kind = "poll" /\ task[t].pc = "done"
        /\ task[t].resp[1].status = 200

\* C16: a start request the limiter rejects creates no session; a poll it
\* rejects holds no session and changes neither the store nor any session;
\* and a session that had a result when a poll of it was rejected gives that
\* result to the poll that next gets through.
C16_RejectionTouchesNoSession ==
    [][\A t \in Tasks :
          /\ (Starts(t, "start") /\ Rejected(t))
             => (sessions' = sessions /\ arena' = arena /\ task'[t].session_id = None)
          /\ (Starts(t, "poll") /\ Rejected(t))
             => /\ sessions' = sessions /\ arena' = arena
                /\ terminal_polls' = terminal_polls
                /\ task'[t].pc = "done"
                /\ task'[t].session = None /\ task'[t].val = None
                /\ \A id \in throttled' \ throttled :
                      id \in sessions' /\ arena'[id].state.status \in Terminal
          /\ (Starts(t, "poll") /\ Admitted(t) /\ task'[t].session_id[1] \in throttled)
             => /\ terminal_polls[task'[t].session_id[1]] = 0
                   => (task'[t].pc = "read" /\ task'[t].session = task'[t].session_id)
          /\ (Leaves(t, "poll", "remove") /\ Held(t) \in throttled)
             => /\ task'[t].resp[1].status = 200
                /\ task'[t].resp[1].json = arena[Held(t)].state
                /\ task'[t].resp[1].json.status \in Terminal]_vars

C16_Witness ==
    \E t \in Tasks :
        /\ 1 \in throttled
        /\ task[t].kind = "poll" /\ task[t].pc = "done"
        /\ task[t].session_id = Some(1)
        /\ task[t].resp[1].status = 200
        /\ task[t].resp[1].json = [status |-> "failed", error |-> << "access_denied" >>]

\* The address the claim expects for a request, source by source: for each
\* header value of the inputs, the address it yields, written out.
XffYields(h) ==
    IF h = Some([ascii |-> TRUE, text |-> << "203.0.113.7" >>])
    THEN Some(<< 203, 0, 113, 7 >>)
    ELSE IF h = Some([ascii |-> TRUE,
                      text |-> << "unknown", ",", " ", "198.51.100.2", ",", " ", "203.0.113.7" >>])
    THEN Some(<< 198, 51, 100, 2 >>)
    ELSE None

XRealIpYields(h) ==
    IF h = Some([ascii |-> TRUE, text |-> << "192.0.2.9" >>]) THEN Some(<< 192, 0, 2, 9 >>)
    ELSE None

ForwardedYields(h) ==
    IF h = Some([ascii |-> TRUE, text |-> << "for=", "192.0.2.60" >>])
    THEN Some(<< 192, 0, 2, 60 >>)
    ELSE IF h = Some([ascii |-> TRUE,
                      text |-> << "proto=https", ";", " ", "For=", "\"", "[", "2001:db8::1", "]", "\"" >>])
    THEN Some(<< 8193, 3512, 0, 0, 0, 0, 0, 1 >>)
    ELSE None

ExpectedKey(request) ==
    IF XffYields(request.headers.x_forwarded_for) # None
    THEN XffYields(request.headers.x_forwarded_for)[1]
    ELSE IF XRealIpYields(request.headers.x_real_ip) # None
    THEN XRealIpYields(request.headers.x_real_ip)[1]
    ELSE IF ForwardedYields(request.headers.forwarded) # None
    THEN ForwardedYields(request.headers.forwarded)[1]
    ELSE IF request.connect_info # None THEN request.connect_info[1]
    ELSE << 127, 0, 0, 1 >>

\* A Forwarded value with two comma-separated elements, in a request whose
\* X-Forwarded-For and X-Real-IP yield nothing: the claim does not say which
\* address, if any, such a value stands for.
TwoElementForwarded ==
    Some([ascii |-> TRUE, text |-> << "for=", "192.0.2.60", ",", " ", "for=", "203.0.113.7" >>])

ForwardedDecides(request) ==
    /\ request.headers.forwarded = TwoElementForwarded
    /\ XffYields(request.headers.x_forwarded_for) = None
    /\ XRealIpYields(request.headers.x_real_ip) = None

HandlerLeaves(h, pc) == handler[h].pc = pc /\ handler'[h].pc # pc

\* C18: at the local listener the sender is used at most once, however the
\* /callback requests interleave: the request that finds it in the cell
\* sends its own outcome, a request that finds the cell empty sends nothing,
\* every request is answered with the static page, a request that waits for
\* the lock gets it, and what the receiver holds never changes once sent.
C18_TakeOnceDelivery ==
    /\ [](rx.sends <= 1)
    /\ [](tx.holder # None => handler[tx.holder[1]].pc = "locked")
    /\ [](\A h \in Tasks : handler[h].pc = "done" => handler[h].resp = Some(CALLBACK_HTML))
    /\ [][\A h \in Tasks :
            /\ HandlerLeaves(h, "lock")
               => (handler'[h].took = tx.cell /\ tx'.cell = None /\ rx' = rx)
            /\ (HandlerLeaves(h, "locked") /\ handler[h].took # None)
               => /\ rx.sends = 0 /\ rx'.sends = 1
                  /\ rx.open => rx'.sent = handler[h].result
            /\ (HandlerLeaves(h, "locked") /\ handler[h].took = None)
               => rx' = rx
            /\ rx.sent # None => rx'.sent = rx.sent]_vars
    /\ \A h \in Tasks : (handler[h].pc = "lock") ~> (handler[h].pc = "done")

C18_Witness ==
    \E h \in Tasks, g \in Tasks :
        /\ handler[h].pc = "done" /\ handler[g].pc = "done"
        /\ handler[h].took # None /\ handler[g].took = None
        /\ handler[h].result # handler[g].result
        /\ rx.sends = 1
        /\ rx.sent = handler[h].result
        /\ login.waited = handler[h].result

\* C19: a wait that has reached its select resolves once, with the value
\* that was delivered (a code, or AuthorizationDenied) or, the listener
\* having terminated, with ServerShutdown; and once a value is delivered or
\* the listener has terminated, it does resolve.
C19_SelectResolvesOnce ==
    /\ [][login.pc = "select" /\ login'.pc # "select"
           => /\ login.waited = None /\ login'.waited # None
              /\ \/ /\ rx.sent # None
                    /\ login'.waited = rx.sent
                    /\ login'.waited[1].ok \/ login'.waited[1].error = "AuthorizationDenied"
                 \/ /\ server = "terminated"
                    /\ login'.waited = Some([ok |-> FALSE, error |-> "ServerShutdown",
                                             detail |-> ""])]_vars
    /\ [][login.waited # None => login'.waited = login.waited]_vars
    /\ (login.pc = "select" /\ (rx.sent # None \/ server = "terminated"))
          ~> (login.waited # None)

C19_Witness ==
    /\ login.waited = Some([ok |-> FALSE, error |-> "ServerShutdown", detail |-> ""])
    /\ rx.sent = Some([ok |-> TRUE, value |-> "xyz"])
    /\ server = "terminated"

\* The order the local login flow is to keep.
LoginOrder ==
    << "generate_cert", "bind", "open_url", "resolved", "exchange", "return_token" >>

Position(step) == CHOOSE i \in 1 .. Len(LoginOrder) : LoginOrder[i] = step

\* C20: the steps of the local login flow come in the order certificate,
\* bind, open the authorization URL, wait resolved, exchange, return the
\* token; in particular the URL is opened only after the listener is bound.
C20_LoginOrder ==
    \A i \in 1 .. Len(log), j \in 1 .. Len(log) :
        i < j => Position(log[i]) < Position(log[j])

\* The query of url has parameter name with this value (one chunk).
UrlHas(url, name, value) ==
    \E i \in 1 .. Len(url) - 1 : url[i] = name /\ url[i + 1] = value

\* The query of url has parameter name with this value (a run of chunks).
UrlHasSeq(url, name, value) ==
    \E i \in 1 .. Len(url) - Len(value) :
        url[i] = name /\ SubSeq(url, i + 1, i + Len(value)) = value

UrlHasName(url, name) == \E i \in 1 .. Len(url) - 1 : url[i] = name

\* C21: an authorization URL names the client id, the percent-encoded
\* redirect URI, the fixed scopes and response_type=code, and has a state
\* parameter: the session id in the URL a start request answers with, some
\* token in the URL the local login opens.
C21_AuthorizationUrl ==
    /\ \A t \in Tasks :
          (task[t].kind = "start" /\ task[t].resp # None /\ task[t].resp[1].status = 200)
          => LET url == task[t].resp[1].json.auth_url IN
             /\ UrlHas(url, "client_id=", oauth.client_id)
             /\ UrlHasSeq(url, "redirect_uri=", urlencode(redirect_uri))
             /\ UrlHas(url, "scope=", OAUTH_SCOPES)
             /\ UrlHas(url, "response_type=", "code")
             /\ UrlHas(url, "state=", task[t].resp[1].json.session_id)
    /\ login.auth_url # None
       => LET url == login.auth_url[1] IN
          /\ UrlHas(url, "client_id=", local_oauth.client_id)
          /\ UrlHasSeq(url, "redirect_uri=", urlencode(local_oauth.redirect_uri))
          /\ UrlHas(url, "scope=", OAUTH_SCOPES)
          /\ UrlHas(url, "response_type=", "code")
          /\ UrlHasName(url, "state=")

\* hosted_login takes the step that leaves position pc.
ClientLeaves(pc) == client.pc = pc /\ client'.pc # pc

\* C22: in the polling client a browser that fails to open does not end
\* the login: after a successful start the client goes on to its poll loop
\* whether or not auth_url could be opened.
C22_BrowserFailureNonFatal ==
    [][ClientLeaves("open_browser")
       => (client'.pc = "loop" /\ client'.result = None)]_vars

\* The answers to a poll, as the relay and the network give them.
SendFailed(reply) == reply.kind = "send_error"

StatusOf(reply) == reply.response.status

ErrorStatus(reply) ==
    /\ reply.kind = "response"
    /\ StatusOf(reply) >= 400
    /\ StatusOf(reply) # 404

JsonStatus(reply, status) ==
    /\ reply.kind = "response"
    /\ StatusOf(reply) = 200
    /\ "json" \in DOMAIN reply.response
    /\ reply.response.json.status = status

\* C23: a poll answered pending, a poll that could not be sent and a poll
\* answered with an error status other than 404 all leave the login
\* running: the client goes on with its loop.
C23_TransientPollContinues ==
    [][ClientLeaves("poll")
       => LET reply == client'.last[1] IN
          (JsonStatus(reply, "pending") \/ SendFailed(reply) \/ ErrorStatus(reply))
          => (client'.pc = "loop" /\ client'.result = None)]_vars

\* C24: a poll answered 404 ends the login with SessionTimeout, one
\* answered completed ends it with the token of that answer, one answered
\* failed ends it with AuthorizationDenied and the error of that answer;
\* a login that succeeded has just read a completed answer.
C24_PollOutcomes ==
    /\ [][ClientLeaves("poll")
          => LET reply == client'.last[1] IN
             /\ (reply.kind = "response" /\ StatusOf(reply) = 404)
                => /\ client'.pc = "done"
                   /\ client'.result = Some(Err("SessionTimeout", << >>))
             /\ JsonStatus(reply, "completed")
                => /\ client'.pc = "done"
                   /\ client'.result[1].ok
                   /\ client'.result[1].value.access_token = reply.response.json.access_token
             /\ JsonStatus(reply, "failed")
                => /\ client'.pc = "done"
                   /\ client'.result = Some(Err("AuthorizationDenied",
                                                reply.response.json.error))]_vars
    /\ []((client.result # None /\ client.result[1].ok)
          => /\ client.last # None
             /\ JsonStatus(client.last[1], "completed")
             /\ client.result[1].value.access_token
                   = client.last[1].response.json.access_token)

C24_Witness ==
    /\ client.pc = "done"
    /\ client.polls = 3
    /\ client.result = Some(Ok([access_token |-> "tokB", user_id |-> 0]))
    /\ client.last[1].response = poll_ok(Completed("tokB"))

C26_GracefulShutdownBounded ==
    /\ serving.signal # None => ~ serving.accepting
    /\ serving.in_flight > 0 => serving.since_signal <= GRACE_PERIOD
    /\ serving.since_signal > GRACE_PERIOD => serving.pc = "returned"

\* Request t is a callback that makes its write in this step.
Writes(t) ==
    /\ task[t].kind = "callback"
    /\ task[t].pc \in { "fail_oauth", "fail_missing_code", "store_result" }
    /\ task'[t].pc = "done"

\* The age of session id at instant at.
Age(id, at) == at - arena[id].created_at

\* C27: a session's state is changed only by the write of a callback whose
\* state parameter is that session's id; a start, no step of a poll and no
\* cleanup pass changes the state of a session that exists.
C27_CallbackSoleWriter ==
    [][\A id \in 1 .. Len(arena) :
          arena'[id].state # arena[id].state
          => \E t \in Tasks : Writes(t) /\ task[t].session_id = Some(id)]_vars

C27_Witness ==
    \E t \in Tasks :
        /\ task[t].kind = "callback" /\ task[t].pc = "done"
        /\ task[t].session_id = Some(2)
        /\ Len(arena) = 2
        /\ arena[2].state.status = "completed"
        /\ arena[1].state.status = "pending"
        /\ swept # { }

\* C28: a session goes out of the store only by the remove of a poll that
\* read Completed or Failed for it, or by a cleanup pass when it is older
\* than the TTL; a start and a callback take no session out, a poll takes
\* out no Pending session, and a cleanup pass leaves every session that is
\* not older than the TTL.
C28_RemovalOnlyByTerminalPollOrSweep ==
    [][\A id \in sessions :
          id \notin sessions'
          => \/ \E t \in Tasks :
                   /\ Leaves(t, "poll", "remove")
                   /\ task[t].session_id = Some(id)
                   /\ task[t].val[1].status \in Terminal
                   /\ arena[id].state.status \in Terminal
             \/ /\ task' = task
                /\ Age(id, now) > SESSION_TTL]_vars

C28_Witness ==
    \E old \in swept, polled \in SessionIds :
        /\ terminal_polls[old] = 0
        /\ terminal_polls[polled] > 0
        /\ old \notin sessions /\ polled \notin sessions
        /\ arena[polled].state.status \in Terminal
        /\ Age(old, now) > SESSION_TTL

\* C29: a lookup does not look at a session's age: a poll of a session that
\* is in the store and older than the TTL holds the session and is answered
\* 200 with its state, and a callback for it holds the session and stores
\* its result in it.
C29_LookupIgnoresExpiry ==
    [][\A t \in Tasks :
          /\ \A id \in sessions :
                (/\ Age(id, now) > SESSION_TTL
                 /\ Starts(t, "poll") \/ Starts(t, "callback")
                 /\ task'[t].session_id = Some(id))
                => task'[t].session = Some(id)
          /\ (Leaves(t, "poll", "read") /\ Age(Held(t), task[t].at) > SESSION_TTL)
             => \/ task'[t].resp = Some(poll_ok(arena[Held(t)].state))
                \/ task'[t].pc = "remove" /\ task'[t].val = Some(arena[Held(t)].state)
          /\ (Leaves(t, "poll", "remove") /\ Age(Held(t), task[t].at) > SESSION_TTL)
             => task'[t].resp = Some(poll_ok(task[t].val[1]))
          /\ (Writes(t) /\ Age(Held(t), task[t].at) > SESSION_TTL)
             => arena'[Held(t)].state = task[t].val[1]]_vars

C29_Witness ==
    \E t \in Tasks, u \in Tasks :
        /\ task[t].kind = "callback" /\ task[t].pc = "done"
        /\ task[u].kind = "poll" /\ task[u].pc = "done"
        /\ task[t].session # None /\ task[u].session # None
        /\ Held(t) = Held(u)
        /\ Held(t) \notin swept
        /\ Age(Held(t), task[t].at) > SESSION_TTL
        /\ Age(Held(u), task[u].at) > SESSION_TTL
        /\ arena[Held(t)].state.status = "completed"
        /\ task[u].resp = Some(poll_ok(arena[Held(u)].state))

\* Request t is a callback suspended in its token exchange.
InExchange(t) == task[t].kind = "callback" /\ task[t].pc = "exchange"

\* Request u can take its next step.
CanStep(u) ==
    /\ (task[u].kind = "poll" /\ task[u].pc = "read") => ENABLED poll_auth_read(u)
    /\ (task[u].kind = "poll" /\ task[u].pc = "remove") => ENABLED poll_auth_remove(u)
    /\ (task[u].kind = "callback" /\ task[u].pc \in { "fail_oauth", "fail_missing_code", "store_result" })
       => ENABLED auth_callback_write(u)
    /\ free_slot(u)
       => /\ \A id \in IdStrings : ENABLED poll_auth_begin(u, id)
          /\ \A id \in IdStrings :
                ENABLED auth_callback_begin(u, [code |-> None, state |-> Some(id),
                                                 error |-> None, error_description |-> None])
          /\ Len(arena) < MaxSessions => ENABLED start_auth(u)

\* While a callback is suspended in its exchange, every other request can
\* take its next step.
ExchangeBlocksNothing ==
    \A t \in Tasks : InExchange(t) => \A u \in Tasks \ { t } : CanStep(u)

\* Poll u reads the session that callback t, suspended in its exchange, holds.
ReadsDuringExchange(t, u) ==
    /\ InExchange(t)
    /\ task'[t] = task[t]
    /\ Leaves(u, "poll", "read")
    /\ Held(u) = Held(t)

ErrorAndCodeParams == { q \in CallbackParams : q.error # None /\ q.code # None }

\* C38: a callback for a session in the store whose request has both an error
\* and a code stores Failed with the error's message (the description when
\* given, else the error) in that session and sends no token request, neither
\* before the write nor after it.
C38_ErrorBeforeCode ==
    [][\A t \in Tasks :
          /\ Starts(t, "callback")
             => \A params \in ErrorAndCodeParams :
                   ( /\ NamesPresent(params)
                     /\ task'[t] = [callback_decide(params, sessions) EXCEPT !.at = now] )
                   => /\ task'[t].pc = "fail_oauth"
                      /\ task'[t].exchanges = 0
                      /\ task'[t].session = params.state
                      /\ task'[t].val = Some(Failed(OAuthMessage(params)))
          /\ Leaves(t, "callback", "fail_oauth")
             => /\ task'[t].pc = "done"
                /\ task'[t].exchanges = 0
                /\ arena'[Held(t)].state = task[t].val[1]
                /\ task'[t].resp = Some(error_html(task[t].val[1].error))]_vars

C38_Witness ==
    \E t \in Tasks : \E id \in sessions :
        /\ task[t].kind = "callback" /\ task[t].pc = "done"
        /\ task[t].session = Some(id)
        /\ task[t].exchanges = 0
        /\ arena[id].state \in { Failed(m) : m \in OAuthMessages }

\* C33: remove_session is idempotent: removing an id twice leaves the store
\* as removing it once does, removing an id that is not in the store leaves
\* the store as it is, and no removal takes out another session or fails: a
\* poll whose session is already gone when it removes it is still answered
\* with the state it read.
C33_RemoveIdempotent ==
    /\ [](\A id \in 1 .. MaxSessions :
             LET once == remove_session(sessions, id) IN
             /\ remove_session(once, id) = once
             /\ id \notin sessions => once = sessions
             /\ \A other \in 1 .. MaxSessions :
                   other # id => (other \in once <=> other \in sessions))
    /\ [][\A t \in Tasks :
            Leaves(t, "poll", "remove")
            => /\ sessions' = sessions \ { Held(t) }
               /\ Held(t) \notin sessions => sessions' = sessions
               /\ task'[t].pc = "done"
               /\ task'[t].resp = Some(poll_ok(task[t].val[1]))]_vars

C33_Witness ==
    \E id \in 1 .. Len(arena) : \E other \in sessions :
        /\ terminal_polls[id] = 2
        /\ other # id
        /\ \A t \in Tasks :
              /\ task[t].kind = "poll" /\ task[t].pc = "done"
              /\ task[t].session = Some(id)
              /\ task[t].resp[1].status = 200

\* C34: whenever a callback stores Completed with a token for a session, that
\* session is still in the store: no cleanup pass and no poll took it out
\* between the callback's lookup and its write.
C34_CompletedWriteFindsSession ==
    [][\A t \in Tasks :
          (Writes(t) /\ task[t].val[1].status = "completed")
          => Held(t) \in sessions]_vars

\* The local login has returned this error.
LoginFailedWith(kind) ==
    /\ login.pc = "done"
    /\ login.result # None
    /\ ~ login.result[1].ok
    /\ login.result[1].error = kind

\* Step e of the local login flow has happened.
Logged(e) == \E i \in 1 .. Len(log) : log[i] = e

\* C32: when the certificate cannot be generated or the TLS configuration
\* cannot be built, the local login returns CertGeneration or TlsConfig at
\* that step: the listener was never bound, no /callback request was served,
\* and no token request was sent.
C32_SetupFailureReturnsEarly ==
    /\ [](LoginFailedWith("CertGeneration") \/ LoginFailedWith("TlsConfig")
          => /\ server = "unbound"
             /\ ~ Logged("bind")
             /\ ~ Logged("exchange")
             /\ \A h \in Tasks : handler[h] = NoHandler)
    /\ [][/\ (login.pc = "generate_cert" /\ login'.pc = "done")
             => login'.result = Some(Err("CertGeneration", "rcgen"))
          /\ (login.pc = "tls_config" /\ login'.pc = "done")
             => login'.result = Some(Err("TlsConfig", "pem"))]_vars

C32_Witness ==
    /\ LoginFailedWith("TlsConfig")
    /\ Logged("generate_cert")
    /\ server = "unbound"

\* Request t is a poll that gets its answer in this step, and the answer
\* is completed or failed.
AnsweredTerminal(t) ==
    /\ task'[t].kind = "poll"
    /\ task[t].resp = None /\ task'[t].resp # None
    /\ task'[t].resp[1].status = 200
    /\ task'[t].resp[1].json.status \in Terminal

\* C31: a poll of a session is answered completed or failed only with a
\* state that a callback whose state parameter names that session stored
\* before the poll read it: the token or the error is the one written.
C31_TerminalPollAfterCallback ==
    [][\A t \in Tasks :
          /\ (Leaves(t, "poll", "read") /\ task'[t].pc = "remove")
             => /\ written[Held(t)] # None
                /\ written[Held(t)][1].state = task[t].session_id
                /\ task'[t].val = Some(written[Held(t)][1].value)
          /\ AnsweredTerminal(t)
             => /\ task[t].kind = "poll" /\ task[t].pc = "remove"
                /\ task'[t].resp[1].json = task[t].val[1]]_vars

C31_Witness ==
    \E t \in Tasks : \E id \in 1 .. Len(arena) :
        /\ task[t].kind = "poll" /\ task[t].pc = "done"
        /\ task[t].session_id = Some(id)
        /\ task[t].resp[1].status = 200
        /\ task[t].resp[1].json = Completed("tokB")
        /\ written[id] = Some([state |-> Some(id), value |-> Completed("tokB")])

\* Request t is a poll that moves in this step.
PollSteps(t) == task[t].kind = "poll" /\ task'[t] # task[t]

\* C35: sessions are isolated from one another. A handler holds only the
\* session its request names; the write of a callback with state S changes
\* S and nothing else; a poll of S reads S, answers with what it read and
\* takes at most S out of the store; so a value stored by a callback for S
\* is in S only and is never the answer of a poll of another id.
C35_SessionsIsolated ==
    /\ [](\A t \in Tasks : task[t].session # None => task[t].session = task[t].session_id)
    /\ [](\A id \in SessionIds : written[id] # None => written[id][1].state = Some(id))
    /\ [][\A t \in Tasks :
            /\ Writes(t)
               => /\ sessions' = sessions
                  /\ arena'[Held(t)].state = task[t].val[1]
                  /\ \A id \in 1 .. Len(arena) :
                        id # task[t].session_id[1]
                        => arena'[id] = arena[id] /\ written'[id] = written[id]
            /\ PollSteps(t)
               => /\ arena' = arena
                  /\ sessions \ { task[t].session_id[1] } \subseteq sessions'
                  /\ sessions' \subseteq sessions
            /\ Leaves(t, "poll", "read")
               => \/ task'[t].val = Some(arena[task[t].session_id[1]].state)
                  \/ task'[t].resp = Some(poll_ok(arena[task[t].session_id[1]].state))
            /\ Leaves(t, "poll", "remove")
               => task'[t].resp = Some(poll_ok(task[t].val[1]))]_vars

C35_Witness ==
    \E a \in sessions : \E b \in 1 .. Len(arena) :
        /\ a # b /\ b \notin sessions
        /\ written[a] = Some([state |-> Some(a), value |-> Completed("tokA")])
        /\ written[b] = Some([state |-> Some(b), value |-> Completed("tokB")])
        /\ \E t \in Tasks :
              /\ task[t].kind = "poll" /\ task[t].pc = "done"
              /\ task[t].session_id = Some(b)
              /\ task[t].resp = Some(poll_ok(Completed("tokB")))
        /\ arena[a].state = Completed("tokA")

\* The outcome the parameters of a /callback request call for: the code when
\* there is one, else AuthorizationDenied with the description, else with
\* the error, else with "Unknown error".
ExpectedOutcome(params) ==
    IF params.code # None
    THEN [ok |-> TRUE, value |-> params.code[1]]
    ELSE [ok |-> FALSE, error |-> "AuthorizationDenied",
          detail |-> IF params.error_description # None THEN params.error_description[1]
                     ELSE IF params.error # None THEN params.error[1]
                     ELSE "Unknown error"]

\* Request h, at one of the two static routes, moves in this step.
StaticStep(h) ==
    /\ handler'[h] # handler[h]
    /\ handler[h].pc = "static" \/ handler'[h].pc = "static"

\* C39: at the local listener the /callback request that finds the sender
\* takes it out of the cell and sends the outcome its own parameters call
\* for (the code even when an error is present too); while the listener
\* runs the wait resolves with exactly the value sent; a request to
\* /deauthorize or /delete is answered with its page and touches neither
\* the cell nor the channel nor the wait.
C39_FirstCallbackDecides ==
    [][/\ \A h \in Tasks :
            /\ (HandlerLeaves(h, "lock") /\ tx.cell # None)
               => /\ rx.sends = 0
                  /\ tx'.cell = None
                  /\ handler'[h].took # None
            /\ (HandlerLeaves(h, "locked") /\ handler[h].took # None /\ rx.open)
               => rx'.sent = Some(ExpectedOutcome(handler[h].params[1]))
            /\ StaticStep(h)
               => /\ tx' = tx /\ rx' = rx /\ login' = login
                  /\ handler'[h].pc = "static"
                     => handler'[h].resp = Some(static_page(handler'[h].path[1]))
       /\ (login.pc = "select" /\ login'.pc # "select" /\ server # "terminated")
          => /\ rx.sent # None
             /\ login'.waited = rx.sent]_vars

C39_Witness ==
    \E h \in Tasks, g \in Tasks :
        /\ handler[h].pc = "done" /\ handler[h].took # None
        /\ handler[h].params
              = Some([code |-> Some("xyz"), error |-> Some("access_denied"),
                      error_description |-> None])
        /\ handler[g].pc = "static"
        /\ login.waited = Some([ok |-> TRUE, value |-> "xyz"])
        /\ server = "dropped"

\* C40: a client that polls alone under its key is never held back by the
\* poll limiter: whenever one of its polls arrives, two seconds or more
\* after the one before, the limiter lets it through, so that none of its
\* 150 polls is answered 429.
C40_PacedPollNeverRejected ==
    /\ client.pc = "poll" => gcra(poll_quota, poll_limiter[ClientKey], now).ok
    /\ (client.last # None /\ client.last[1].kind = "response")
       => client.last[1].response.status # 429
    /\ poll_seen[ClientKey] = client.polls

C40_Witness ==
    /\ client.pc = "done"
    /\ client.polls = POLL_ATTEMPTS
    /\ poll_seen[ClientKey] = POLL_ATTEMPTS
    /\ client.last = Some([kind |-> "response", response |-> poll_ok(Pending)])
    /\ client.result = Some(Err("SessionTimeout", << >>))
    /\ now = POLL_ATTEMPTS * POLL_INTERVAL

\* C36: with the cleanup task on its 60-second interval, no session is in
\* the store more than the TTL and one interval (360 s) after it was made,
\* whatever its state and whether it was polled or not.
C36_StoreLifetimeBounded ==
    /\ \A id \in sessions : Age(id, now) <= SESSION_TTL + CLEANUP_INTERVAL
    /\ now <= interval

C36_Witness ==
    \E id \in sessions : \E gone \in swept :
        /\ Age(id, now) = SESSION_TTL + CLEANUP_INTERVAL
        /\ arena[id].state.status = "completed"
        /\ terminal_polls[id] = 0
        /\ arena[gone].state.status = "pending"
        /\ Age(gone, now) > SESSION_TTL

\* C37: once a callback has stored Completed with a token in the session of
\* a polling client that has attempts left, with no sweep in between, the
\* client's login returns success with exactly that token, and the session
\* is then no longer in the store.
C37_CompletedReachesClient ==
    (promised # None /\ client.pc = "done")
    => /\ client.result = Some(Ok([access_token |-> promised[1], user_id |-> 0]))
       /\ client.session_id[1] \notin sessions

====
